---- MODULE Spec2Model ----
(***************************************************************************)
(* Ricochet: correlation substrate.  The store (SQLite, one connection per *)
(* operation), the injector (Injector.inject_vector and the crawl mode of  *)
(* the CLI), and the HTTP and DNS callback servers (one handler thread per *)
(* request), running concurrently on one database.                         *)
(*                                                                         *)
(* Text is modelled as sequences of one-character strings, so that         *)
(* splitting, length checks and character-class checks are computed.       *)
(***************************************************************************)
EXTENDS Integers, Sequences, FiniteSets, TLC

(***************************************************************************)
(* Bounds of the model.                                                    *)
(***************************************************************************)
MaxInjections == 2      \* inject_vector / crawl runs started in one behaviour
MaxRequests == 2        \* callback requests (HTTP + DNS) taken in one behaviour
MaxNow == 3             \* ticks of the clock while the rate limiter or the store runs
MaxAcquires == 3        \* acquire calls started in one behaviour
TokenScale == 2         \* units a token is divided into
MaxCalls == 13          \* get_next_interval calls made on one PollingStrategy
MaxPolls == 4           \* iterations of poll_for_callbacks; timeouts go up to MaxPolls - 2
MaxParts == 2           \* literal pieces and placeholders a sampled payload template is made of
\* endpoints handed to one probe_all call
MaxEndpoints == 2
\* largest max_depth and max_pages a sampled Crawler is built with
MaxCrawl == 2

(***************************************************************************)
(* Threads.  Injectors are CLI processes; handlers are server threads.     *)
(***************************************************************************)
Injectors == {"i1"}
HttpThreads == {"h1", "h2"}
DnsThreads == {"d1"}
Handlers == HttpThreads \cup DnsThreads
Threads == Injectors \cup Handlers

None == <<"None">>      \* Python's None (not a character sequence of a text)
NoThread == "nobody"

(***************************************************************************)
(* Text helpers.                                                           *)
(***************************************************************************)
HexChars == {"0","1","2","3","4","5","6","7","8","9","a","b","c","d","e","f"}

IdLen == 16

\* str.find(ch, from): first index i >= from with s[i] = ch, 0 when there is none
RECURSIVE Find(_, _, _)
Find(s, ch, from) ==
    IF from > Len(s) THEN 0
    ELSE IF s[from] = ch THEN from
    ELSE Find(s, ch, from + 1)

\* first index i >= from with s[i] in chars, 0 when there is none
RECURSIVE FindAny(_, _, _)
FindAny(s, chars, from) ==
    IF from > Len(s) THEN 0
    ELSE IF s[from] \in chars THEN from
    ELSE FindAny(s, chars, from + 1)

\* str.rfind(ch): last index with s[i] = ch, 0 when there is none
RECURSIVE RFind(_, _, _)
RFind(s, ch, upto) ==
    IF upto = 0 THEN 0
    ELSE IF s[upto] = ch THEN upto
    ELSE RFind(s, ch, upto - 1)

\* str.split(sep) for a one-character separator: always at least one piece
RECURSIVE Split(_, _)
Split(s, sep) ==
    LET i == Find(s, sep, 1)
    IN  IF i = 0 THEN <<s>>
        ELSE <<SubSeq(s, 1, i - 1)>> \o Split(SubSeq(s, i + 1, Len(s)), sep)

\* sep.join(pieces)
RECURSIVE Join(_, _)
Join(pieces, sep) ==
    IF pieces = <<>> THEN <<>>
    ELSE IF Len(pieces) = 1 THEN pieces[1]
    ELSE pieces[1] \o sep \o Join(Tail(pieces), sep)

\* [s for s in pieces if s]
RECURSIVE NonEmpty(_)
NonEmpty(pieces) ==
    IF pieces = <<>> THEN <<>>
    ELSE IF Head(pieces) = <<>> THEN NonEmpty(Tail(pieces))
    ELSE <<Head(pieces)>> \o NonEmpty(Tail(pieces))

\* str.rstrip(ch)
RECURSIVE RStrip(_, _)
RStrip(s, ch) ==
    IF s # <<>> /\ s[Len(s)] = ch THEN RStrip(SubSeq(s, 1, Len(s) - 1), ch) ELSE s

(***************************************************************************)
(* Correlation IDs.  generate_correlation_id returns secrets.token_hex(8): *)
(* any string of 16 lowercase hex digits; CorrIds samples that range.      *)
(***************************************************************************)
ID_A == <<"a","1","b","2","c","3","d","4","e","5","f","6","0","7","1","8">>
ID_B == <<"d","e","a","d","b","e","e","f","c","a","f","e","f","0","0","d">>
CorrIds == {ID_A, ID_B}

generate_correlation_id == CorrIds

(***************************************************************************)
(* substitute_callback: re.sub over the four alternatives of               *)
(* CALLBACK_PATTERN, tried in order at each position, IGNORECASE.          *)
(***************************************************************************)
Lower(ch) ==
    CASE ch = "A" -> "a" [] ch = "B" -> "b" [] ch = "C" -> "c" [] ch = "D" -> "d"
      [] ch = "E" -> "e" [] ch = "F" -> "f" [] ch = "G" -> "g" [] ch = "H" -> "h"
      [] ch = "I" -> "i" [] ch = "J" -> "j" [] ch = "K" -> "k" [] ch = "L" -> "l"
      [] ch = "M" -> "m" [] ch = "N" -> "n" [] ch = "O" -> "o" [] ch = "P" -> "p"
      [] ch = "Q" -> "q" [] ch = "R" -> "r" [] ch = "S" -> "s" [] ch = "T" -> "t"
      [] ch = "U" -> "u" [] ch = "V" -> "v" [] ch = "W" -> "w" [] ch = "X" -> "x"
      [] ch = "Y" -> "y" [] ch = "Z" -> "z"
      [] OTHER -> ch

CALLBACK_PATTERN ==
    << <<"{","{","C","A","L","L","B","A","C","K","}","}">>,
       <<"{","{","c","a","l","l","b","a","c","k","}","}">>,
       <<"{","C","A","L","L","B","A","C","K","}">>,
       <<"$","{","C","A","L","L","B","A","C","K","}">> >>

MatchAt(s, i, pat) ==
    /\ i + Len(pat) - 1 <= Len(s)
    /\ \A k \in 1..Len(pat) : Lower(s[i + k - 1]) = Lower(pat[k])

\* length of the match of the pattern at position i, 0 when no alternative matches
MatchLen(s, i) ==
    LET alts == {a \in 1..Len(CALLBACK_PATTERN) : MatchAt(s, i, CALLBACK_PATTERN[a])}
    IN  IF alts = {} THEN 0
        ELSE Len(CALLBACK_PATTERN[CHOOSE a \in alts : \A b \in alts : a <= b])

RECURSIVE PatternSub(_, _, _)
PatternSub(s, i, repl) ==
    IF i > Len(s) THEN <<>>
    ELSE LET n == MatchLen(s, i)
         IN  IF n > 0 THEN repl \o PatternSub(s, i + n, repl)
             ELSE <<s[i]>> \o PatternSub(s, i + 1, repl)

\* substitute_callback without the rstrip('/')
substitute_callback_KeepsSlashes(payload, callback_url, correlation_id) ==
    PatternSub(payload, 1, callback_url \o <<"/">> \o correlation_id)

substitute_callback(payload, callback_url, correlation_id) ==
    LET full_url == RStrip(callback_url, "/") \o <<"/">> \o correlation_id
    IN  PatternSub(payload, 1, full_url)

CallbackUrl == <<"h","t","t","p",":","/","/","c","b","/">>

\* payload template given to the injector
Templates == { <<"<",">">> \o <<"{","{","c","a","l","l","b","a","c","k","}","}">> }

(***************************************************************************)
(* HTTP server: urlparse(self.path).path, for request targets without a    *)
(* scheme (no ':' in the sampled paths).                                   *)
(***************************************************************************)
\* urlsplit: netloc after a leading '//', then fragment, then query;
\* urlparse: params cut from the last path segment
UrlParse(url) ==
    LET hasNetloc == Len(url) >= 2 /\ url[1] = "/" /\ url[2] = "/"
        delim == IF hasNetloc THEN FindAny(url, {"/", "?", "#"}, 3) ELSE 0
        netloc == IF ~hasNetloc THEN <<>>
                  ELSE IF delim = 0 THEN SubSeq(url, 3, Len(url))
                  ELSE SubSeq(url, 3, delim - 1)
        rest == IF ~hasNetloc THEN url
                ELSE IF delim = 0 THEN <<>>
                ELSE SubSeq(url, delim, Len(url))
        badBrackets == \/ (Find(netloc, "[", 1) # 0 /\ Find(netloc, "]", 1) = 0)
                       \/ (Find(netloc, "]", 1) # 0 /\ Find(netloc, "[", 1) = 0)
        h == Find(rest, "#", 1)
        noFrag == IF h = 0 THEN rest ELSE SubSeq(rest, 1, h - 1)
        q == Find(noFrag, "?", 1)
        noQuery == IF q = 0 THEN noFrag ELSE SubSeq(noFrag, 1, q - 1)
        lastSlash == RFind(noQuery, "/", Len(noQuery))
        semi == IF lastSlash # 0 THEN Find(noQuery, ";", lastSlash)
                ELSE Find(noQuery, ";", 1)
        path == IF semi = 0 THEN noQuery ELSE SubSeq(noQuery, 1, semi - 1)
    IN  IF badBrackets THEN [error |-> "ValueError", path |-> <<>>]
        ELSE [error |-> "", path |-> path]

\* the length test as an upper limit
ValidCandidate_AtMost16(candidate) ==
    /\ Len(candidate) <= 16
    /\ \A k \in 1..Len(candidate) : candidate[k] \in HexChars

\* len(candidate) == 16 and all(c in '0123456789abcdef' for c in candidate)
ValidCandidate(candidate) ==
    /\ Len(candidate) = IdLen
    /\ \A k \in 1..Len(candidate) : candidate[k] \in HexChars

\* the candidate the HTTP handler validates: segments[-1], None without segments
HttpCandidate(path) ==
    LET segments == NonEmpty(Split(path, "/"))
    IN  IF segments = <<>> THEN None ELSE segments[Len(segments)]

\* CallbackHandler._extract_correlation_id, on the parsed path
HttpExtract(path) ==
    LET candidate == HttpCandidate(path)
    IN  IF candidate = None THEN None
        ELSE IF ValidCandidate(candidate) THEN candidate
        ELSE None

StdResponse ==
    [status |-> 200, content_type |-> "text/plain", content_length |-> 2, body |-> "OK"]
NoResponse == [status |-> 0, content_type |-> "", content_length |-> 0, body |-> ""]

(***************************************************************************)
(* DNS server.  A datagram is its size class, the items of the question    *)
(* name as they lie in the packet, and the QTYPE that follows (-1 when     *)
(* fewer than two octets follow the name; 28 is AAAA).  size_ok is FALSE   *)
(* for a datagram shorter than the 12-octet header.  An item is a label    *)
(* (fits = FALSE when its length octet points past the end of the packet), *)
(* a compression pointer, or the terminating zero octet.                   *)
(***************************************************************************)
QTYPE_A == 1
NonAsciiByte == "0x80"

Label(chars) == [k |-> "label", data |-> chars, fits |-> TRUE]
CutLabel(chars) == [k |-> "label", data |-> chars, fits |-> FALSE]
Pointer == [k |-> "ptr", data |-> <<>>, fits |-> TRUE]
EndOfName == [k |-> "end", data |-> <<>>, fits |-> TRUE]

\* bytes.decode('ascii', errors='ignore')
RECURSIVE DecodeAsciiIgnore(_)
DecodeAsciiIgnore(bytes) ==
    IF bytes = <<>> THEN <<>>
    ELSE IF Head(bytes) = NonAsciiByte THEN DecodeAsciiIgnore(Tail(bytes))
    ELSE <<Head(bytes)>> \o DecodeAsciiIgnore(Tail(bytes))

\* the label loop of _parse_question: the labels read; ok = FALSE on a cut label
RECURSIVE ParseLabels(_, _)
ParseLabels(items, labels) ==
    IF items = <<>> THEN [ok |-> TRUE, labels |-> labels]
    ELSE LET it == Head(items)
         IN  IF it.k = "ptr" THEN [ok |-> TRUE, labels |-> labels]
             ELSE IF it.k = "end" THEN [ok |-> TRUE, labels |-> labels]
             ELSE IF ~it.fits THEN [ok |-> FALSE, labels |-> <<>>]
             ELSE ParseLabels(Tail(items), Append(labels, DecodeAsciiIgnore(it.data)))

\* DNSHandler._parse_question: (qname, qtype)
ParseQuestion(pkt) ==
    LET parsed == ParseLabels(pkt.name, <<>>)
    IN  IF ~parsed.ok \/ parsed.labels = <<>> THEN [qname |-> None, qtype |-> 0]
        ELSE [qname |-> Join(parsed.labels, <<".">>),
              qtype |-> IF pkt.qtype < 0 THEN 0 ELSE pkt.qtype]

\* the candidate the DNS handler validates: qname.split('.')[0]
DnsCandidate(qname) == IF qname = <<>> THEN None ELSE Split(qname, ".")[1]

\* DNSHandler._extract_correlation_id
DnsExtract(qname) ==
    LET candidate == DnsCandidate(qname)
    IN  IF candidate = None THEN None
        ELSE IF ValidCandidate(candidate) THEN candidate
        ELSE None

\* DNSHandler._build_response: flags 0x8580, the question echoed, one A answer
\* (127.0.0.1, TTL 60) when qtype is A and the name is non-empty
BuildResponse(qname, qtype) ==
    LET answer == qtype = QTYPE_A /\ qname # None /\ qname # <<>>
    IN  [status |-> 34176, content_type |-> "dns",
         content_length |-> IF answer THEN 1 ELSE 0,
         body |-> IF answer THEN "127.0.0.1" ELSE ""]

(***************************************************************************)
(* Sampled inputs of the servers.                                          *)
(***************************************************************************)
ID_15 == SubSeq(ID_A, 1, 15)
ID_17 == ID_A \o <<"9">>
ID_UPPER == <<"A">> \o SubSeq(ID_A, 2, 16)

\* requests taken while the injector runs
HttpPaths == { <<"/","c","/">> \o ID_A \o <<"/","?","q">>, <<"/">> }

DnsPackets ==
    { [size_ok |-> TRUE, name |-> <<Label(ID_A), Label(<<"x">>), EndOfName>>, qtype |-> QTYPE_A],
      [size_ok |-> TRUE, name |-> <<CutLabel(ID_A)>>, qtype |-> -1] }

\* requests with boundary candidates, taken by the servers on a populated store
BoundaryHttpPaths ==
    { <<"/">> \o ID_A,
      <<"/","c","/">> \o ID_B \o <<";","p","?","q","#","f">>,
      <<"/">> \o ID_15,
      <<"/">> \o ID_17,
      <<"/">> \o ID_UPPER,
      <<"/">>,
      <<"/","/">> \o ID_A,
      <<"/","/","[">> }

BoundaryDnsPackets ==
    { [size_ok |-> TRUE, name |-> <<Label(ID_A), Label(<<"x">>), EndOfName>>, qtype |-> QTYPE_A],
      [size_ok |-> TRUE, name |-> <<Label(ID_B \o <<NonAsciiByte>>), EndOfName>>, qtype |-> 28],
      [size_ok |-> TRUE, name |-> <<Label(ID_UPPER), Label(<<"x">>), EndOfName>>, qtype |-> QTYPE_A],
      [size_ok |-> TRUE, name |-> <<Label(ID_15 \o <<".">> \o <<"a">>), EndOfName>>, qtype |-> -1],
      [size_ok |-> TRUE, name |-> <<Label(ID_17), Pointer>>, qtype |-> QTYPE_A],
      [size_ok |-> TRUE, name |-> <<CutLabel(ID_A)>>, qtype |-> -1],
      [size_ok |-> FALSE, name |-> <<>>, qtype |-> -1] }

(***************************************************************************)
(* Rate limiter (injection/rate_limiter.py).  The monotonic clock counts   *)
(* whole ticks.  A token count, a float in the code, is a whole number of  *)
(* units of 1/TokenScale token, and a rate is a number of units per tick,  *)
(* so that elapsed * rate is computed exactly.                             *)
(***************************************************************************)
Callers == {"a1", "a2"}

Rates == {-1, 0, 1, 2}      \* units per tick handed to the constructor
Bursts == {0, 1, 2}         \* tokens handed to the constructor

Min(a, b) == IF b < a THEN b ELSE a     \* Python's min(a, b)

\* __init__, the checks of its arguments: the exception raised, or "none"
InitError_NoBurstCheck(rate, burst) ==
    IF rate <= 0 THEN "ValueError" ELSE "none"

InitError(rate, burst) ==
    IF rate <= 0 THEN "ValueError"
    ELSE IF burst < 1 THEN "ValueError"
    ELSE "none"

NoCtor == [called |-> FALSE, rate |-> 0, burst |-> 0, error |-> "none"]

NoLimiter == [state |-> "none", rate |-> 0, burst |-> 0, tokens |-> 0,
              last_update |-> 0, lock |-> NoThread]

\* __init__, the fields it sets: the bucket starts full
NewLimiter(rate, burst, t) ==
    [state |-> "built", rate |-> rate, burst |-> burst,
     tokens |-> burst * TokenScale, last_update |-> t, lock |-> NoThread]

\* _refill, read of the clock t included
Refill_NoCap(l, t) ==
    [l EXCEPT !.tokens = l.tokens + (t - l.last_update) * l.rate,
              !.last_update = t]

Refill(l, t) ==
    LET elapsed == t - l.last_update
    IN  [l EXCEPT !.tokens = Min(l.burst * TokenScale, l.tokens + elapsed * l.rate),
                  !.last_update = t]

\* acquire after its _refill: what it returns ("none": it goes on to sleep and
\* retry), the tokens it leaves, wait_time * rate, and whether the with block
\* of the lock is left before the return or the sleep
AcquireOutcome_NoDecrement(tokens, blocking) ==
    IF tokens >= TokenScale
    THEN [ret |-> "True", tokens |-> tokens, pc |-> "done", wait |-> 0, unlock |-> TRUE]
    ELSE IF ~blocking
    THEN [ret |-> "False", tokens |-> tokens, pc |-> "done", wait |-> 0, unlock |-> TRUE]
    ELSE [ret |-> "none", tokens |-> tokens, pc |-> "sleep",
          wait |-> TokenScale - tokens, unlock |-> TRUE]

AcquireOutcome_SleepInsideWith(tokens, blocking) ==
    IF tokens >= TokenScale
    THEN [ret |-> "True", tokens |-> tokens - TokenScale, pc |-> "done", wait |-> 0,
          unlock |-> TRUE]
    ELSE IF ~blocking
    THEN [ret |-> "False", tokens |-> tokens, pc |-> "done", wait |-> 0, unlock |-> TRUE]
    ELSE [ret |-> "none", tokens |-> tokens, pc |-> "sleep",
          wait |-> TokenScale - tokens, unlock |-> FALSE]

AcquireOutcome_NonBlockingWaits(tokens, blocking) ==
    IF tokens >= TokenScale
    THEN [ret |-> "True", tokens |-> tokens - TokenScale, pc |-> "done", wait |-> 0,
          unlock |-> TRUE]
    ELSE [ret |-> "none", tokens |-> tokens, pc |-> "sleep",
          wait |-> TokenScale - tokens, unlock |-> TRUE]

AcquireOutcome(tokens, blocking) ==
    IF tokens >= TokenScale
    THEN [ret |-> "True", tokens |-> tokens - TokenScale, pc |-> "done", wait |-> 0,
          unlock |-> TRUE]
    ELSE IF ~blocking
    THEN [ret |-> "False", tokens |-> tokens, pc |-> "done", wait |-> 0, unlock |-> TRUE]
    ELSE [ret |-> "none", tokens |-> tokens, pc |-> "sleep",
          wait |-> TokenScale - tokens, unlock |-> TRUE]

NoAcquire == [pc |-> "idle", blocking |-> FALSE, elapsed |-> 0, wait |-> 0,
              slept_from |-> 0, ret |-> "none"]

(***************************************************************************)
(* Polling (triggers/polling.py).  Intervals and the backoff factor,       *)
(* floats in the code, are exact fractions n/d in lowest terms; the        *)
(* timeout and the clock are whole ticks.                                  *)
(***************************************************************************)
RECURSIVE GCD(_, _)
GCD(a, b) == IF b = 0 THEN a ELSE GCD(b, a % b)

Frac(n, d) == LET g == GCD(n, d) IN [n |-> n \div g, d |-> d \div g]
Whole(n) == [n |-> n, d |-> 1]
FMul(a, b) == Frac(a.n * b.n, a.d * b.d)
FLess(a, b) == a.n * b.d < b.n * a.d
FMin(a, b) == IF FLess(b, a) THEN b ELSE a      \* Python's min(a, b)
Ceil(a) == (a.n + a.d - 1) \div a.d

\* a to the power k, for the closed form of the backoff schedule
RECURSIVE FPow(_, _)
FPow(a, k) == IF k = 0 THEN Whole(1) ELSE FMul(a, FPow(a, k - 1))

QUIET_THRESHOLD == 5

NoTime == -1        \* _start_time is None

PollingConfig(base, max, factor, reset, timeout) ==
    [base_interval |-> base, max_interval |-> max, backoff_factor |-> factor,
     reset_on_callback |-> reset, timeout |-> timeout]

\* the defaults of the dataclass
DefaultConfig == PollingConfig(Whole(5), Whole(60), Frac(3, 2), TRUE, 3600)

\* PollingStrategy.__init__
NewStrategy(c) ==
    [current_interval |-> c.base_interval, quiet_polls |-> 0, start_time |-> NoTime]

\* get_next_interval at clock reading t: the fields after the call; the value
\* returned is the current_interval it leaves
get_next_interval_AtThreshold(s, c, received_callback, t) ==
    LET started == IF s.start_time = NoTime THEN t ELSE s.start_time
        quiet == s.quiet_polls + 1
    IN  IF received_callback /\ c.reset_on_callback
        THEN [current_interval |-> c.base_interval, quiet_polls |-> 0,
              start_time |-> started]
        ELSE [current_interval |->
                  IF quiet >= QUIET_THRESHOLD
                  THEN FMin(FMul(s.current_interval, c.backoff_factor), c.max_interval)
                  ELSE s.current_interval,
              quiet_polls |-> quiet, start_time |-> started]

get_next_interval_KeepsCounter(s, c, received_callback, t) ==
    LET started == IF s.start_time = NoTime THEN t ELSE s.start_time
        quiet == s.quiet_polls + 1
    IN  IF received_callback /\ c.reset_on_callback
        THEN [current_interval |-> c.base_interval, quiet_polls |-> s.quiet_polls,
              start_time |-> started]
        ELSE [current_interval |->
                  IF quiet > QUIET_THRESHOLD
                  THEN FMin(FMul(s.current_interval, c.backoff_factor), c.max_interval)
                  ELSE s.current_interval,
              quiet_polls |-> quiet, start_time |-> started]

get_next_interval(s, c, received_callback, t) ==
    LET started == IF s.start_time = NoTime THEN t ELSE s.start_time
        quiet == s.quiet_polls + 1
    IN  IF received_callback /\ c.reset_on_callback
        THEN [current_interval |-> c.base_interval, quiet_polls |-> 0,
              start_time |-> started]
        ELSE [current_interval |->
                  IF quiet > QUIET_THRESHOLD
                  THEN FMin(FMul(s.current_interval, c.backoff_factor), c.max_interval)
                  ELSE s.current_interval,
              quiet_polls |-> quiet, start_time |-> started]

\* is_timed_out at clock reading t
is_timed_out_Reversed(s, c, t) ==
    IF s.start_time = NoTime THEN FALSE
    ELSE s.start_time - t > c.timeout

\* is_timed_out with the clock started when the strategy is constructed
is_timed_out_FromConstruction(s, c, t) ==
    LET start == IF s.start_time = NoTime THEN 0 ELSE s.start_time
    IN  t - start > c.timeout

is_timed_out(s, c, t) ==
    IF s.start_time = NoTime THEN FALSE
    ELSE LET elapsed == t - s.start_time IN elapsed > c.timeout

\* elapsed_seconds at clock reading t
elapsed_seconds(s, t) ==
    IF s.start_time = NoTime THEN 0 ELSE t - s.start_time

NoPoll == [pc |-> "idle", iterations |-> 0, findings |-> <<>>, received_callback |-> FALSE,
           interval |-> Whole(0), total_findings |-> 0, last_poll_time |-> NoTime,
           delivered |-> {}, error |-> "none"]

(***************************************************************************)
(* State.                                                                  *)
(***************************************************************************)
VARIABLES
    injections,     \* committed rows of table injections
    callbacks,      \* committed rows of table callbacks, in autoincrement order
    dbLock,         \* the connection holding the database write lock
    pc,             \* position of every thread
    cid,            \* correlation_id local of every thread
    call,           \* arguments and locals of the injector's current run
    result,         \* InjectionResult returned by inject_vector
    trace,          \* operations of the current run, then the outcome of its send
    rl_tokens,      \* tokens of the injector's RateLimiter
    sent,           \* correlation IDs whose HTTP request has been issued
    req,            \* request (path or datagram) of every handler
    found,          \* result of the existence check in record_callback
    recorded,       \* outcome of record_callback as seen by the handler
    response,       \* what the handler sent to the client
    afterSend,      \* the request arrived after the injector issued its send
    nInj,           \* runs started
    nReq,           \* requests taken
    now,            \* the clock (time.monotonic() in the limiter, time.time() elsewhere), in ticks
    ctor,           \* the RateLimiter(rate, burst) call made and the error it raised
    limiter,        \* fields of the RateLimiter object
    acq,            \* position and locals of every caller of acquire
    grants,         \* acquire calls that returned True, in the order of their return
    nAcq,           \* acquire calls started
    config,         \* the PollingConfig in use
    strategy,       \* fields of the PollingStrategy object
    poll,           \* position and locals of poll_for_callbacks
    calls,          \* get_next_interval calls made, with what each returned
    received_at,    \* time.time() read by the handler's INSERT INTO callbacks
    op,             \* the last call on the store made by a client, with what it returned
    srv             \* shutdown flag and position of the main loop of each callback server

storeVars == <<injections, callbacks, dbLock>>
injVars == <<call, result, trace, rl_tokens, sent, nInj>>
hdlVars == <<req, found, recorded, response, afterSend, nReq, received_at>>
limVars == <<ctor, limiter, acq, grants, nAcq>>
pollVars == <<config, strategy, poll, calls>>
coreVars == <<storeVars, pc, cid, injVars, hdlVars, op, srv>>
vars == <<injections, callbacks, dbLock, pc, cid, call, result, trace, rl_tokens,
          sent, req, found, recorded, response, afterSend, nInj, nReq,
          now, ctor, limiter, acq, grants, nAcq, config, strategy, poll, calls,
          received_at, op, srv>>

Burst == 1      \* RateLimiter(rate=args.rate, burst=1)

NoCall == [payload |-> <<>>, dry_run |-> FALSE, final_payload |-> <<>>, mode |-> "none"]
NoResult == [correlation_id |-> None, status |-> 0, success |-> FALSE, error |-> "unset"]

\* no RateLimiter constructed, nobody in acquire
LimiterUnused ==
    /\ ctor = NoCtor
    /\ limiter = NoLimiter
    /\ acq = [t \in Callers |-> NoAcquire]
    /\ grants = <<>>
    /\ nAcq = 0

\* no PollingStrategy in use, poll_for_callbacks not called
PollerUnused ==
    /\ config = DefaultConfig
    /\ strategy = NewStrategy(DefaultConfig)
    /\ poll = NoPoll
    /\ calls = <<>>

\* the store empty, every injector and handler thread idle
InitCore ==
    /\ injections = {}
    /\ callbacks = <<>>
    /\ dbLock = NoThread
    /\ pc = [t \in Threads |-> "idle"]
    /\ cid = [t \in Threads |-> None]
    /\ call = [i \in Injectors |-> NoCall]
    /\ result = [i \in Injectors |-> NoResult]
    /\ trace = [i \in Injectors |-> <<>>]
    /\ rl_tokens = [i \in Injectors |-> Burst]
    /\ sent = {}
    /\ req = [t \in Handlers |-> None]
    /\ found = [t \in Handlers |-> FALSE]
    /\ recorded = [t \in Handlers |-> "unset"]
    /\ response = [t \in Handlers |-> NoResponse]
    /\ afterSend = [t \in Handlers |-> FALSE]
    /\ nInj = 0
    /\ nReq = 0
    /\ received_at = [t \in Handlers |-> NoTime]
    /\ op = [name |-> "none"]
    /\ srv = [s \in {"http", "dns"} |-> [shutdown |-> FALSE, pc |-> "handle"]]

Init ==
    /\ InitCore
    /\ now = 0
    /\ LimiterUnused
    /\ PollerUnused

(***************************************************************************)
(* Store: statements of InjectionStore on the SQLite database.  Every      *)
(* operation opens its own connection; a write statement takes the         *)
(* database write lock, which the commit at the end of the 'with' block    *)
(* releases.  A SELECT outside a write runs in autocommit mode and reads   *)
(* the committed rows.                                                     *)
(***************************************************************************)
Ids(injs) == {r.id : r \in injs}

\* the lookup without its WHERE clause: any row of the table matches
InjectionExists_AnyRow(injs, c) == injs # {}

\* the lookup on the wrong column
InjectionExists_ByPayload(injs, c) == \E r \in injs : r.payload = c

\* SELECT 1 FROM injections WHERE id = ?
InjectionExists(injs, c) == \E r \in injs : r.id = c

\* PRAGMA foreign_keys = ON
ForeignKeysOn == TRUE

\* FOREIGN KEY (correlation_id) REFERENCES injections(id), checked by the INSERT
ForeignKeyOK(injs, c) == ForeignKeysOn => InjectionExists(injs, c)

\* the table without its primary key
PrimaryKeyOK_NoKey(injs, c) == TRUE

\* id TEXT PRIMARY KEY, checked by the INSERT
PrimaryKeyOK(injs, c) == \A r \in injs : r.id # c

InjectionRow(c, payload) == [id |-> c, payload |-> payload]

\* the columns of a callbacks row that the model reads
CallbackRow(c, path, at) == [correlation_id |-> c, request_path |-> path, received_at |-> at]

\* INSERT INTO callbacks: one row, with the next autoincrement id
InsertCallback(cbs, row) == Append(cbs, row)

\* the INSERT of record_injection binding payload and parameter to each other's column
RowOfRecord_SwapsColumns(record) ==
    [id |-> record.id, target_url |-> record.target_url, parameter |-> record.payload,
     payload |-> record.parameter, context |-> record.context,
     injected_at |-> record.timestamp]

\* INSERT INTO injections (id, target_url, parameter, payload, context, injected_at)
\* VALUES (record.id, ..., record.context, record.timestamp)
RowOfRecord(record) ==
    [id |-> record.id, target_url |-> record.target_url, parameter |-> record.parameter,
     payload |-> record.payload, context |-> record.context,
     injected_at |-> record.timestamp]

\* get_injection: SELECT * FROM injections WHERE id = ?, fetchone(), and the
\* InjectionRecord built from the row (timestamp=row['injected_at']).  An Optional
\* is the empty set for None and a singleton for a value.
get_injection(injs, c) ==
    IF \E row \in injs : row.id = c
    THEN LET row == CHOOSE r \in injs : r.id = c
         IN  {[id |-> row.id, target_url |-> row.target_url, parameter |-> row.parameter,
               payload |-> row.payload, timestamp |-> row.injected_at,
               context |-> row.context]}
    ELSE {}

\* sub in s
Contains(s, sub) ==
    \E i \in 1..Len(s) :
       /\ i + Len(sub) - 1 <= Len(s)
       /\ \A k \in 1..Len(sub) : s[i + k - 1] = sub[k]

\* Finding.severity testing 'xss' before 'ssti' and 'sqli'
severity_XssFirst(context) ==
    IF context = None THEN "info"
    ELSE LET ctx_lower == [k \in 1..Len(context) |-> Lower(context[k])]
         IN  IF Contains(ctx_lower, <<"x","s","s">>) THEN "medium"
             ELSE IF Contains(ctx_lower, <<"s","s","t","i">>) THEN "high"
             ELSE IF Contains(ctx_lower, <<"s","q","l","i">>) THEN "high"
             ELSE "info"

\* Finding.severity; ctx_lower is context.lower()
severity(context) ==
    IF context = None THEN "info"
    ELSE LET ctx_lower == [k \in 1..Len(context) |-> Lower(context[k])]
         IN  IF Contains(ctx_lower, <<"s","s","t","i">>) THEN "high"
             ELSE IF Contains(ctx_lower, <<"s","q","l","i">>) THEN "high"
             ELSE IF Contains(ctx_lower, <<"x","s","s">>) THEN "medium"
             ELSE "info"

\* one row of the SELECT of get_findings, as the Finding built from it
Finding(i, callback_id, c) ==
    [correlation_id |-> i.id, target_url |-> i.target_url, parameter |-> i.parameter,
     payload |-> i.payload, context |-> i.context, injected_at |-> i.injected_at,
     callback_id |-> callback_id, request_path |-> c.request_path,
     received_at |-> c.received_at, delay_seconds |-> c.received_at - i.injected_at]

\* ORDER BY c.received_at ASC
RECURSIVE OrderByReceivedDesc_Ascending(_)
OrderByReceivedDesc_Ascending(rows) ==
    IF rows = {} THEN {<<>>}
    ELSE UNION { { <<r>> \o rest : rest \in OrderByReceivedDesc_Ascending(rows \ {r}) } :
                 r \in {x \in rows : \A y \in rows : x.received_at <= y.received_at} }

\* ORDER BY c.received_at DESC: every order of the rows it allows (rows with equal
\* received_at come in an order SQL leaves open)
RECURSIVE OrderByReceivedDesc(_)
OrderByReceivedDesc(rows) ==
    IF rows = {} THEN {<<>>}
    ELSE UNION { { <<r>> \o rest : rest \in OrderByReceivedDesc(rows \ {r}) } :
                 r \in {x \in rows : \A y \in rows : y.received_at <= x.received_at} }

\* get_findings with WHERE c.received_at >= ?
get_findings_SinceInclusive(injs, cbs, since, min_severity) ==
    LET severity_order(name) ==
            CASE name = "info" -> 0 [] name = "low" -> 1 [] name = "medium" -> 2
              [] name = "high" -> 3 [] OTHER -> 0
        min_level == severity_order(min_severity)
        joined == { Finding(p[1], p[2], cbs[p[2]]) :
                      p \in {q \in injs \X (1..Len(cbs)) :
                                q[1].id = cbs[q[2]].correlation_id} }
        selected == IF since # NoTime THEN {f \in joined : f.received_at >= since}
                    ELSE joined
        Keep(f) == severity_order(severity(f.context)) >= min_level
    IN  { SelectSeq(rows, Keep) : rows \in OrderByReceivedDesc(selected) }

\* get_findings with the join without its ON clause
get_findings_CrossJoin(injs, cbs, since, min_severity) ==
    LET severity_order(name) ==
            CASE name = "info" -> 0 [] name = "low" -> 1 [] name = "medium" -> 2
              [] name = "high" -> 3 [] OTHER -> 0
        min_level == severity_order(min_severity)
        joined == { Finding(p[1], p[2], cbs[p[2]]) : p \in injs \X (1..Len(cbs)) }
        selected == IF since # NoTime THEN {f \in joined : f.received_at > since}
                    ELSE joined
        Keep(f) == severity_order(severity(f.context)) >= min_level
    IN  { SelectSeq(rows, Keep) : rows \in OrderByReceivedDesc(selected) }

\* get_findings(since, min_severity): the lists it can return.  severity_order(name)
\* is severity_order.get(name, 0); joined is FROM injections i INNER JOIN callbacks c
\* ON i.id = c.correlation_id; selected adds WHERE c.received_at > ? when since is
\* not None; Keep is the severity test made on each Finding after the query.
get_findings(injs, cbs, since, min_severity) ==
    LET severity_order(name) ==
            CASE name = "info" -> 0 [] name = "low" -> 1 [] name = "medium" -> 2
              [] name = "high" -> 3 [] OTHER -> 0
        min_level == severity_order(min_severity)
        joined == { Finding(p[1], p[2], cbs[p[2]]) :
                      p \in {q \in injs \X (1..Len(cbs)) :
                                q[1].id = cbs[q[2]].correlation_id} }
        selected == IF since # NoTime THEN {f \in joined : f.received_at > since}
                    ELSE joined
        Keep(f) == severity_order(severity(f.context)) >= min_level
    IN  { SelectSeq(rows, Keep) : rows \in OrderByReceivedDesc(selected) }

\* request_path stored by the handler of thread t
RequestPath(t) ==
    IF t \in HttpThreads THEN req[t]
    ELSE <<"D","N","S",":">> \o ParseQuestion(req[t]).qname

(***************************************************************************)
(* Injector.inject_vector.                                                 *)
(***************************************************************************)
\* inject_vector without the rate limiter
InjectNext_NoAcquire(step, dry_run) ==
    CASE step = "start" -> "record"
      [] step = "record" -> IF dry_run THEN "return" ELSE "send"
      [] step = "send" -> "await"
      [] OTHER -> "return"

\* inject_vector recording the row after the response instead of before the send
InjectNext_RecordLast(step, dry_run) ==
    CASE step = "start" -> IF dry_run THEN "record" ELSE "acquire"
      [] step = "acquire" -> "send"
      [] step = "send" -> "await"
      [] step = "await" -> "record"
      [] OTHER -> "return"

\* inject_vector without the dry-run return
InjectNext_DryRunSends(step, dry_run) ==
    CASE step = "start" -> "record"
      [] step = "record" -> "acquire"
      [] step = "acquire" -> "send"
      [] step = "send" -> "await"
      [] OTHER -> "return"

\* order of the operations of inject_vector
InjectNext(step, dry_run) ==
    CASE step = "start" -> "record"
      [] step = "record" -> IF dry_run THEN "return" ELSE "acquire"
      [] step = "acquire" -> "send"
      [] step = "send" -> "await"
      [] step = "await" -> "return"

PcOf(step) == IF step = "return" THEN "done" ELSE step

DryRunResult(c) ==
    [correlation_id |-> c, status |-> 0, success |-> TRUE, error |-> "[dry-run] Request not sent"]

SendOutcomes == {"response", "TimeoutError", "ConnectionError", "Exception"}

\* only TimeoutError and ConnectionError caught, as in the crawl mode of the CLI
SendResult_NarrowExcept(c, outcome) ==
    CASE outcome = "response" ->
            [correlation_id |-> c, status |-> 200, success |-> TRUE, error |-> "None"]
      [] outcome = "TimeoutError" ->
            [correlation_id |-> c, status |-> 0, success |-> FALSE, error |-> "Timeout"]
      [] outcome = "ConnectionError" ->
            [correlation_id |-> c, status |-> 0, success |-> FALSE, error |-> "Connection error"]
      [] OTHER ->
            [correlation_id |-> None, status |-> 0, success |-> FALSE, error |-> "raise"]

\* the try / except around send_request: the result returned, or "raise"
SendResult(c, outcome) ==
    CASE outcome = "response" ->
            [correlation_id |-> c, status |-> 200, success |-> TRUE, error |-> "None"]
      [] outcome = "TimeoutError" ->
            [correlation_id |-> c, status |-> 0, success |-> FALSE, error |-> "Timeout"]
      [] outcome = "ConnectionError" ->
            [correlation_id |-> c, status |-> 0, success |-> FALSE, error |-> "Connection error"]
      [] OTHER ->
            [correlation_id |-> c, status |-> 0, success |-> FALSE, error |-> "Unexpected error"]

Raised == [correlation_id |-> None, status |-> 0, success |-> FALSE, error |-> "raise"]

\* inject_vector entered: correlation ID generated, payload substituted
I_Start(i) ==
    /\ pc[i] \in {"idle", "done", "raised"}
    /\ nInj < MaxInjections
    /\ \E c \in generate_correlation_id, p \in Templates, d \in BOOLEAN :
          /\ cid' = [cid EXCEPT ![i] = c]
          /\ call' = [call EXCEPT ![i] = [payload |-> p, dry_run |-> d,
                         final_payload |-> substitute_callback(p, CallbackUrl, c),
                         mode |-> "vector"]]
          /\ pc' = [pc EXCEPT ![i] = PcOf(InjectNext("start", d))]
    /\ result' = [result EXCEPT ![i] = NoResult]
    /\ trace' = [trace EXCEPT ![i] = <<>>]
    /\ nInj' = nInj + 1
    /\ UNCHANGED <<storeVars, hdlVars, rl_tokens, sent, now, limVars, pollVars, op, srv>>

\* record_injection, INSERT: takes the write lock; IntegrityError on a duplicate id
I_RecordInsert(i) ==
    /\ pc[i] = "record"
    /\ dbLock = NoThread
    /\ IF PrimaryKeyOK(injections, cid[i])
       THEN /\ dbLock' = i
            /\ pc' = [pc EXCEPT ![i] = "record_commit"]
            /\ result' = result
       ELSE /\ dbLock' = dbLock
            /\ pc' = [pc EXCEPT ![i] = "raised"]
            /\ result' = [result EXCEPT ![i] = Raised]
    /\ UNCHANGED <<injections, callbacks, cid, call, trace, rl_tokens, sent, nInj, hdlVars, now, limVars, pollVars, op, srv>>

\* record_injection, INSERT while another connection holds the write lock beyond the
\* busy timeout: sqlite3.OperationalError (database is locked) leaves inject_vector
I_RecordBusy(i) ==
    /\ pc[i] = "record"
    /\ dbLock \notin {NoThread, i}
    /\ pc' = [pc EXCEPT ![i] = "raised"]
    /\ result' = [result EXCEPT ![i] = Raised]
    /\ UNCHANGED <<storeVars, cid, call, trace, rl_tokens, sent, nInj, hdlVars, now, limVars, pollVars, op, srv>>

\* record_injection, commit; then the dry-run return
I_RecordCommit(i) ==
    /\ pc[i] = "record_commit"
    /\ injections' = injections \cup {InjectionRow(cid[i], call[i].final_payload)}
    /\ dbLock' = NoThread
    /\ trace' = [trace EXCEPT ![i] = Append(@, "record")]
    /\ LET next == InjectNext("record", call[i].dry_run)
       IN  /\ pc' = [pc EXCEPT ![i] = PcOf(next)]
           /\ result' = IF next = "return" /\ call[i].dry_run
                        THEN [result EXCEPT ![i] = DryRunResult(cid[i])]
                        ELSE result
    /\ UNCHANGED <<callbacks, cid, call, rl_tokens, sent, nInj, hdlVars, now, limVars, pollVars, op, srv>>

\* rate_limiter.acquire(): blocks until the bucket holds a token, then takes it
I_Acquire(i) ==
    /\ pc[i] = "acquire"
    /\ rl_tokens[i] >= 1
    /\ rl_tokens' = [rl_tokens EXCEPT ![i] = @ - 1]
    /\ trace' = [trace EXCEPT ![i] = Append(@, "acquire")]
    /\ pc' = [pc EXCEPT ![i] = PcOf(InjectNext("acquire", call[i].dry_run))]
    /\ UNCHANGED <<storeVars, cid, call, result, sent, nInj, hdlVars, now, limVars, pollVars, op, srv>>

\* acquire sleeps on an empty bucket; the refill of its next round, capped at burst
RL_Refill(i) ==
    /\ pc[i] = "acquire"
    /\ rl_tokens[i] < 1
    /\ rl_tokens[i] < Burst
    /\ rl_tokens' = [rl_tokens EXCEPT ![i] = @ + 1]
    /\ UNCHANGED <<storeVars, pc, cid, call, result, trace, sent, nInj, hdlVars, now, limVars, pollVars, op, srv>>

\* send_request called: the request is on the wire
I_Send(i) ==
    /\ pc[i] = "send"
    /\ sent' = sent \cup {cid[i]}
    /\ trace' = [trace EXCEPT ![i] = Append(@, "send")]
    /\ pc' = [pc EXCEPT ![i] = PcOf(InjectNext("send", call[i].dry_run))]
    /\ UNCHANGED <<storeVars, cid, call, result, rl_tokens, nInj, hdlVars, now, limVars, pollVars, op, srv>>

\* send_request returns or raises
I_Response(i) ==
    /\ pc[i] = "await"
    /\ \E outcome \in SendOutcomes :
          LET r == SendResult(cid[i], outcome)
          IN  /\ result' = [result EXCEPT ![i] = r]
              /\ trace' = [trace EXCEPT ![i] = Append(@, outcome)]
              /\ pc' = [pc EXCEPT ![i] = IF r = Raised THEN "raised"
                                         ELSE PcOf(InjectNext("await", call[i].dry_run))]
    /\ UNCHANGED <<storeVars, cid, call, rl_tokens, sent, nInj, hdlVars, now, limVars, pollVars, op, srv>>

\* cli._cmd_inject_from_crawl: substitute_callback(payload, args.callback_url) is
\* called with two of its three arguments: TypeError before anything is recorded
CrawlInject(i) ==
    /\ pc[i] \in {"idle", "done", "raised"}
    /\ nInj < MaxInjections
    /\ \E p \in Templates :
          call' = [call EXCEPT ![i] = [payload |-> p, dry_run |-> FALSE,
                                       final_payload |-> <<>>, mode |-> "crawl"]]
    /\ cid' = [cid EXCEPT ![i] = None]
    /\ pc' = [pc EXCEPT ![i] = "raised"]
    /\ result' = [result EXCEPT ![i] = Raised]
    /\ trace' = [trace EXCEPT ![i] = <<>>]
    /\ nInj' = nInj + 1
    /\ UNCHANGED <<storeVars, rl_tokens, sent, hdlVars, now, limVars, pollVars, op, srv>>

(***************************************************************************)
(* InjectionStore.record_callback, run by a handler thread t.              *)
(***************************************************************************)
\* the existence check; 'return False' when the row is missing
RC_Select(t) ==
    /\ pc[t] = "rc_select"
    /\ LET exists == InjectionExists(injections, cid[t])
       IN  /\ found' = [found EXCEPT ![t] = exists]
           /\ IF exists
              THEN /\ pc' = [pc EXCEPT ![t] = "rc_insert"]
                   /\ recorded' = recorded
              ELSE /\ pc' = [pc EXCEPT ![t] = "respond"]
                   /\ recorded' = [recorded EXCEPT ![t] = "false"]
    /\ UNCHANGED <<storeVars, injVars, cid, req, response, afterSend, nReq, received_at, now, limVars, pollVars, op, srv>>

\* INSERT INTO callbacks: its parameters are evaluated, time.time() among them, then
\* the statement takes the write lock; IntegrityError on a missing parent row
RC_Insert(t) ==
    /\ pc[t] = "rc_insert"
    /\ dbLock = NoThread
    /\ received_at' = [received_at EXCEPT ![t] = now]
    /\ IF ForeignKeyOK(injections, CallbackRow(cid[t], RequestPath(t), now).correlation_id)
       THEN /\ dbLock' = t
            /\ pc' = [pc EXCEPT ![t] = "rc_commit"]
            /\ recorded' = recorded
       ELSE /\ dbLock' = dbLock
            /\ pc' = [pc EXCEPT ![t] = "aborted"]
            /\ recorded' = [recorded EXCEPT ![t] = "raised"]
    /\ UNCHANGED <<injections, callbacks, injVars, cid, req, found, response, afterSend, nReq, now, limVars, pollVars, op, srv>>

\* INSERT while another connection holds the write lock beyond the busy timeout:
\* sqlite3.OperationalError (database is locked); no handler catches it, and the
\* exception leaves the handler before any response is written
RC_Busy(t) ==
    /\ pc[t] = "rc_insert"
    /\ dbLock \notin {NoThread, t}
    /\ pc' = [pc EXCEPT ![t] = "aborted"]
    /\ recorded' = [recorded EXCEPT ![t] = "raised"]
    /\ UNCHANGED <<storeVars, injVars, cid, req, found, response, afterSend, nReq, received_at, now, limVars, pollVars, op, srv>>

\* commit at the end of the 'with' block; 'return True'
RC_Commit(t) ==
    /\ pc[t] = "rc_commit"
    /\ callbacks' = InsertCallback(callbacks, CallbackRow(cid[t], RequestPath(t), received_at[t]))
    /\ dbLock' = NoThread
    /\ recorded' = [recorded EXCEPT ![t] = "true"]
    /\ pc' = [pc EXCEPT ![t] = "respond"]
    /\ UNCHANGED <<injections, injVars, cid, req, found, response, afterSend, nReq, received_at, now, limVars, pollVars, op, srv>>

(***************************************************************************)
(* HTTP server: CallbackHandler._handle_callback.                          *)
(***************************************************************************)
\* handle_request of the server loop takes a request and starts its handler thread,
\* then the loop tests the shutdown flag; the correlation ID is extracted from the path
H_Arrive(t, paths) ==
    /\ pc[t] \in {"idle", "done", "aborted"}
    /\ srv["http"].pc = "handle"
    /\ srv' = [srv EXCEPT !["http"].pc = IF srv["http"].shutdown THEN "close" ELSE "handle"]
    /\ nReq < MaxRequests
    /\ \E path \in paths :
          LET parsed == UrlParse(path)
              c == IF parsed.error # "" THEN None ELSE HttpExtract(parsed.path)
          IN  /\ req' = [req EXCEPT ![t] = path]
              /\ cid' = [cid EXCEPT ![t] = c]
              /\ afterSend' = [afterSend EXCEPT ![t] = c \in sent]
              /\ pc' = [pc EXCEPT ![t] = IF parsed.error # "" THEN "aborted"
                                         ELSE IF c # None THEN "rc_select"
                                         ELSE "respond"]
    /\ found' = [found EXCEPT ![t] = FALSE]
    /\ recorded' = [recorded EXCEPT ![t] = "unset"]
    /\ response' = [response EXCEPT ![t] = NoResponse]
    /\ nReq' = nReq + 1
    /\ UNCHANGED <<storeVars, injVars, received_at, now, limVars, pollVars, op>>

\* send_response(200) ... wfile.write(b'OK')
H_Respond(t) ==
    /\ t \in HttpThreads
    /\ pc[t] = "respond"
    /\ response' = [response EXCEPT ![t] = StdResponse]
    /\ pc' = [pc EXCEPT ![t] = "done"]
    /\ UNCHANGED <<storeVars, injVars, cid, req, found, recorded, afterSend, nReq, received_at, now, limVars, pollVars, op, srv>>

(***************************************************************************)
(* DNS server: DNSHandler.handle.                                          *)
(***************************************************************************)
\* handle without the test of the datagram's length
D_Arrive_NoLengthCheck(t, packets) ==
    /\ pc[t] \in {"idle", "done", "aborted", "dropped"}
    /\ srv["dns"].pc = "handle"
    /\ srv' = [srv EXCEPT !["dns"].pc = IF srv["dns"].shutdown THEN "close" ELSE "handle"]
    /\ nReq < MaxRequests
    /\ \E pkt \in packets :
          LET q == ParseQuestion(pkt)
              c == IF q.qname = None THEN None ELSE DnsExtract(q.qname)
          IN  /\ req' = [req EXCEPT ![t] = pkt]
              /\ cid' = [cid EXCEPT ![t] = c]
              /\ afterSend' = [afterSend EXCEPT ![t] = c \in sent]
              /\ pc' = [pc EXCEPT ![t] = IF FALSE THEN "dropped"
                                         ELSE IF q.qname = None THEN "done"
                                         ELSE IF c # None THEN "rc_select"
                                         ELSE "respond"]
              /\ response' = [response EXCEPT ![t] =
                                 IF q.qname = None
                                 THEN BuildResponse(None, 0) ELSE NoResponse]
    /\ found' = [found EXCEPT ![t] = FALSE]
    /\ recorded' = [recorded EXCEPT ![t] = "unset"]
    /\ nReq' = nReq + 1
    /\ UNCHANGED <<storeVars, injVars, received_at, now, limVars, pollVars, op>>

\* a datagram arrives; short packets are dropped, an unparsable name is answered
\* at once, otherwise the correlation ID is extracted from the first label
D_Arrive(t, packets) ==
    /\ pc[t] \in {"idle", "done", "aborted", "dropped"}
    /\ srv["dns"].pc = "handle"
    /\ srv' = [srv EXCEPT !["dns"].pc = IF srv["dns"].shutdown THEN "close" ELSE "handle"]
    /\ nReq < MaxRequests
    /\ \E pkt \in packets :
          LET q == ParseQuestion(pkt)
              c == IF ~pkt.size_ok \/ q.qname = None THEN None ELSE DnsExtract(q.qname)
          IN  /\ req' = [req EXCEPT ![t] = pkt]
              /\ cid' = [cid EXCEPT ![t] = c]
              /\ afterSend' = [afterSend EXCEPT ![t] = c \in sent]
              /\ pc' = [pc EXCEPT ![t] = IF ~pkt.size_ok THEN "dropped"
                                         ELSE IF q.qname = None THEN "done"
                                         ELSE IF c # None THEN "rc_select"
                                         ELSE "respond"]
              /\ response' = [response EXCEPT ![t] =
                                 IF pkt.size_ok /\ q.qname = None
                                 THEN BuildResponse(None, 0) ELSE NoResponse]
    /\ found' = [found EXCEPT ![t] = FALSE]
    /\ recorded' = [recorded EXCEPT ![t] = "unset"]
    /\ nReq' = nReq + 1
    /\ UNCHANGED <<storeVars, injVars, received_at, now, limVars, pollVars, op>>

\* _build_response and socket.sendto
D_Respond(t) ==
    /\ t \in DnsThreads
    /\ pc[t] = "respond"
    /\ LET q == ParseQuestion(req[t])
       IN  response' = [response EXCEPT ![t] = BuildResponse(q.qname, q.qtype)]
    /\ pc' = [pc EXCEPT ![t] = "done"]
    /\ UNCHANGED <<storeVars, injVars, cid, req, found, recorded, afterSend, nReq, received_at, now, limVars, pollVars, op, srv>>

Next ==
    \/ \E i \in Injectors : I_Start(i)
    \/ \E i \in Injectors : I_RecordInsert(i)
    \/ \E i \in Injectors : I_RecordBusy(i)
    \/ \E i \in Injectors : I_RecordCommit(i)
    \/ \E i \in Injectors : I_Acquire(i)
    \/ \E i \in Injectors : RL_Refill(i)
    \/ \E i \in Injectors : I_Send(i)
    \/ \E i \in Injectors : I_Response(i)
    \/ \E i \in Injectors : CrawlInject(i)
    \/ \E t \in HttpThreads : H_Arrive(t, HttpPaths)
    \/ \E t \in HttpThreads : H_Respond(t)
    \/ \E t \in DnsThreads : D_Arrive(t, DnsPackets)
    \/ \E t \in DnsThreads : D_Respond(t)
    \/ \E t \in Handlers : RC_Select(t)
    \/ \E t \in Handlers : RC_Insert(t)
    \/ \E t \in Handlers : RC_Busy(t)
    \/ \E t \in Handlers : RC_Commit(t)

Spec == Init /\ [][Next]_vars

(***************************************************************************)
(* The callback servers alone, on a store that an earlier injector run     *)
(* populated (ID_A is known, ID_B is not), taking the boundary requests.   *)
(***************************************************************************)
InitServers ==
    /\ injections = {InjectionRow(ID_A, substitute_callback(p, CallbackUrl, ID_A)) : p \in Templates}
    /\ callbacks = <<>>
    /\ dbLock = NoThread
    /\ pc = [t \in Threads |-> "idle"]
    /\ cid = [t \in Threads |-> None]
    /\ call = [i \in Injectors |-> NoCall]
    /\ result = [i \in Injectors |-> NoResult]
    /\ trace = [i \in Injectors |-> <<>>]
    /\ rl_tokens = [i \in Injectors |-> Burst]
    /\ sent = {ID_A}
    /\ req = [t \in Handlers |-> None]
    /\ found = [t \in Handlers |-> FALSE]
    /\ recorded = [t \in Handlers |-> "unset"]
    /\ response = [t \in Handlers |-> NoResponse]
    /\ afterSend = [t \in Handlers |-> FALSE]
    /\ nInj = 0
    /\ nReq = 0
    /\ received_at = [t \in Handlers |-> NoTime]
    /\ op = [name |-> "none"]
    /\ srv = [s \in {"http", "dns"} |-> [shutdown |-> FALSE, pc |-> "handle"]]
    /\ now = 0
    /\ LimiterUnused
    /\ PollerUnused

NextServers ==
    \/ \E t \in HttpThreads : H_Arrive(t, BoundaryHttpPaths)
    \/ \E t \in HttpThreads : H_Respond(t)
    \/ \E t \in DnsThreads : D_Arrive(t, BoundaryDnsPackets)
    \/ \E t \in DnsThreads : D_Respond(t)
    \/ \E t \in Handlers : RC_Select(t)
    \/ \E t \in Handlers : RC_Insert(t)
    \/ \E t \in Handlers : RC_Busy(t)
    \/ \E t \in Handlers : RC_Commit(t)

SpecServers == InitServers /\ [][NextServers]_vars

(***************************************************************************)
(* The callback servers with SIGINT / SIGTERM delivered: run_callback_     *)
(* server and run_dns_server, each the main thread of its own process.     *)
(* The handler threads are daemon threads (daemon_threads = True):         *)
(* server_close does not join them and they end with the process.          *)
(***************************************************************************)
\* signal_handler: server.request_shutdown() sets the event
S_Signal(s) ==
    /\ srv[s].pc # "exited"
    /\ ~srv[s].shutdown
    /\ srv' = [srv EXCEPT ![s].shutdown = TRUE]
    /\ UNCHANGED <<storeVars, pc, cid, injVars, hdlVars, op, now, limVars, pollVars>>

\* handle_request returns (at the latest on its 0.5 s timeout), the loop sees the
\* flag and ends, server_close() closes the socket, the function returns 0 and the
\* process exits: its handler threads stop where they are, and SQLite rolls back
\* the transaction of a dead connection
S_Stop(s) ==
    /\ srv[s].shutdown
    /\ srv[s].pc \in {"handle", "close"}
    /\ srv' = [srv EXCEPT ![s].pc = "exited"]
    /\ LET threads == IF s = "http" THEN HttpThreads ELSE DnsThreads
           running == {t \in threads : pc[t] \in {"rc_select", "rc_insert", "rc_commit", "respond"}}
       IN  /\ pc' = [t \in Threads |-> IF t \in running THEN "killed" ELSE pc[t]]
           /\ dbLock' = IF dbLock \in running THEN NoThread ELSE dbLock
    /\ UNCHANGED <<injections, callbacks, cid, injVars, hdlVars, op, now, limVars, pollVars>>

NextShutdown ==
    \/ \E t \in HttpThreads : H_Arrive(t, BoundaryHttpPaths)
    \/ \E t \in HttpThreads : H_Respond(t)
    \/ \E t \in DnsThreads : D_Arrive(t, BoundaryDnsPackets)
    \/ \E t \in DnsThreads : D_Respond(t)
    \/ \E t \in Handlers : RC_Select(t)
    \/ \E t \in Handlers : RC_Insert(t)
    \/ \E t \in Handlers : RC_Busy(t)
    \/ \E t \in Handlers : RC_Commit(t)
    \/ \E s \in {"http", "dns"} : S_Signal(s)
    \/ \E s \in {"http", "dns"} : S_Stop(s)

SpecShutdown == InitServers /\ [][NextShutdown]_vars

(***************************************************************************)
(* The rate limiter alone: one RateLimiter shared by the callers, the      *)
(* monotonic clock advancing between any two of their steps.               *)
(***************************************************************************)
\* RateLimiter(rate, burst)
L_Construct ==
    /\ ~ctor.called
    /\ \E rate \in Rates, burst \in Bursts :
         LET error == InitError(rate, burst)
         IN  /\ ctor' = [called |-> TRUE, rate |-> rate, burst |-> burst, error |-> error]
             /\ limiter' = IF error = "none" THEN NewLimiter(rate, burst, now)
                           ELSE NoLimiter
    /\ UNCHANGED <<coreVars, now, acq, grants, nAcq, pollVars>>

\* the monotonic clock advances
Tick ==
    /\ limiter.state = "built"
    /\ now < MaxNow
    /\ now' = now + 1
    /\ UNCHANGED <<coreVars, limVars, pollVars>>

\* acquire(blocking) is called
A_Call(t) ==
    /\ limiter.state = "built"
    /\ acq[t].pc \in {"idle", "done"}
    /\ nAcq < MaxAcquires
    /\ \E blocking \in BOOLEAN :
         acq' = [acq EXCEPT ![t] = [NoAcquire EXCEPT !.pc = "enter", !.blocking = blocking]]
    /\ nAcq' = nAcq + 1
    /\ UNCHANGED <<coreVars, now, ctor, limiter, grants, pollVars>>

\* with self._lock: the lock is taken once it is free
A_Lock(t) ==
    /\ acq[t].pc = "enter"
    /\ limiter.lock = NoThread
    /\ limiter' = [limiter EXCEPT !.lock = t]
    /\ acq' = [acq EXCEPT ![t].pc = "refill"]
    /\ UNCHANGED <<coreVars, now, ctor, grants, nAcq, pollVars>>

\* self._refill() under the lock
A_Refill(t) ==
    /\ acq[t].pc = "refill"
    /\ limiter' = Refill(limiter, now)
    /\ acq' = [acq EXCEPT ![t].pc = "check", ![t].elapsed = now - limiter.last_update]
    /\ UNCHANGED <<coreVars, now, ctor, grants, nAcq, pollVars>>

\* the rest of the with block: take a token and return True, return False, or
\* compute wait_time; the lock is released on the way out
A_Check(t) ==
    /\ acq[t].pc = "check"
    /\ LET out == AcquireOutcome(limiter.tokens, acq[t].blocking)
       IN  /\ limiter' = [limiter EXCEPT !.tokens = out.tokens,
                                         !.lock = IF out.unlock THEN NoThread ELSE t]
           /\ acq' = [acq EXCEPT ![t].pc = out.pc, ![t].ret = out.ret,
                                 ![t].wait = out.wait, ![t].slept_from = now]
           /\ grants' = IF out.ret = "True"
                        THEN Append(grants, [by |-> t, read |-> limiter.last_update,
                                             returned |-> now])
                        ELSE grants
    /\ UNCHANGED <<coreVars, now, ctor, nAcq, pollVars>>

\* time.sleep(wait_time) returns, wait_time or more after it was called, and
\* the loop starts over
A_Wake(t) ==
    /\ acq[t].pc = "sleep"
    /\ (now - acq[t].slept_from) * limiter.rate >= acq[t].wait
    /\ acq' = [acq EXCEPT ![t].pc = "enter"]
    /\ UNCHANGED <<coreVars, now, ctor, limiter, grants, nAcq, pollVars>>

\* the available_tokens property: lock, _refill, return
L_AvailableTokens(t) ==
    /\ limiter.state = "built"
    /\ acq[t].pc \in {"idle", "done"}
    /\ limiter.lock = NoThread
    /\ limiter' = Refill(limiter, now)
    /\ UNCHANGED <<coreVars, now, ctor, acq, grants, nAcq, pollVars>>

InitLimiter ==
    /\ InitCore
    /\ now = 0
    /\ LimiterUnused
    /\ PollerUnused

NextLimiter ==
    \/ L_Construct
    \/ Tick
    \/ \E t \in Callers : A_Call(t)
    \/ \E t \in Callers : A_Lock(t)
    \/ \E t \in Callers : A_Refill(t)
    \/ \E t \in Callers : A_Check(t)
    \/ \E t \in Callers : A_Wake(t)
    \/ \E t \in Callers : L_AvailableTokens(t)

SpecLimiter == InitLimiter /\ [][NextLimiter]_vars

(***************************************************************************)
(* One PollingStrategy called over and over, with and without a callback   *)
(* received.  Nothing in PollingConfig checks its fields: the schedules    *)
(* are the scenario (1 s, 8 s, 2.0), the defaults (5 s, 60 s, 1.5), one    *)
(* whose maximum is no power of the factor, and the defaults with          *)
(* base_interval set to 120 s, above the default maximum.                  *)
(***************************************************************************)
Schedules ==
    { [base |-> Whole(1), max |-> Whole(8), factor |-> Whole(2)],
      [base |-> Whole(5), max |-> Whole(60), factor |-> Frac(3, 2)],
      [base |-> Whole(2), max |-> Whole(7), factor |-> Whole(3)],
      [base |-> Whole(120), max |-> Whole(60), factor |-> Frac(3, 2)] }

StrategyConfigs ==
    { PollingConfig(s.base, s.max, s.factor, r, DefaultConfig.timeout) :
          s \in Schedules, r \in BOOLEAN }

\* strategy.get_next_interval(received_callback)
S_Call(received_callback) ==
    /\ Len(calls) < MaxCalls
    /\ LET after == get_next_interval(strategy, config, received_callback, now)
       IN  /\ strategy' = after
           /\ calls' = Append(calls, [received_callback |-> received_callback,
                                      returned |-> after.current_interval,
                                      quiet_polls |-> after.quiet_polls])
    /\ UNCHANGED <<coreVars, now, limVars, config, poll>>

InitStrategy ==
    /\ InitCore
    /\ now = 0
    /\ LimiterUnused
    /\ config \in StrategyConfigs
    /\ strategy = NewStrategy(config)
    /\ poll = NoPoll
    /\ calls = <<>>

NextStrategy ==
    \E received_callback \in BOOLEAN : S_Call(received_callback)

SpecStrategy == InitStrategy /\ [][NextStrategy]_vars

(***************************************************************************)
(* poll_for_callbacks: the loop of one polling task.  Time passes in the   *)
(* store query and in the sleep; a query gives a batch of 0 to 2 findings. *)
(* One tick of the clock is 0.1 s: the schedules are base_interval 0.1 s   *)
(* (as the timeout test of the repository has it), 0.15 s, 0.3 s above a   *)
(* maximum of 0.2 s, and the defaults (5 s, 60 s, 1.5).                    *)
(***************************************************************************)
PollSchedules ==
    { [base |-> Whole(1), max |-> Whole(8), factor |-> Whole(2)],
      [base |-> Frac(3, 2), max |-> Whole(7), factor |-> Whole(3)],
      [base |-> Whole(3), max |-> Whole(2), factor |-> Whole(2)],
      [base |-> Whole(50), max |-> Whole(600), factor |-> Frac(3, 2)] }

PollConfigs ==
    { PollingConfig(s.base, s.max, s.factor, r, timeout) :
          s \in PollSchedules, r \in BOOLEAN, timeout \in 0..(MaxPolls - 2) }

BatchSizes == {0, 1, 2}

\* poll_for_callbacks is called: strategy, total_findings, last_poll_time
P_Start ==
    /\ poll.pc = "idle"
    /\ strategy' = NewStrategy(config)
    /\ poll' = [NoPoll EXCEPT !.pc = "check"]
    /\ UNCHANGED <<coreVars, now, limVars, config, calls>>

\* while not strategy.is_timed_out()
P_Check ==
    /\ poll.pc = "check"
    /\ IF is_timed_out(strategy, config, now)
       THEN poll' = [poll EXCEPT !.pc = "returned"]
       ELSE /\ poll.iterations < MaxPolls
            /\ poll' = [poll EXCEPT !.pc = "query", !.iterations = @ + 1]
    /\ UNCHANGED <<coreVars, now, limVars, config, strategy, calls>>

\* findings = store.get_findings(...) on a store that is not modelled: the query
\* takes up to a tick and gives the callback ids of 0 to 2 rows not seen before
P_Query ==
    /\ poll.pc = "query"
    /\ \E n \in BatchSizes, took \in 0..1 :
         /\ now' = now + took
         /\ poll' = [poll EXCEPT !.findings = [k \in 1..n |-> poll.total_findings + k],
                                 !.pc = "stamp"]
    /\ UNCHANGED <<coreVars, limVars, config, strategy, calls>>

\* findings = store.get_findings(since=last_poll_time, min_severity='info') on the
\* committed rows of the store; findings holds the callback_id of each Finding
PS_Query ==
    /\ poll.pc = "query"
    /\ \E ret \in get_findings(injections, callbacks, poll.last_poll_time, "info") :
         poll' = [poll EXCEPT !.findings = [k \in 1..Len(ret) |-> ret[k].callback_id],
                              !.pc = "stamp"]
    /\ UNCHANGED <<coreVars, now, limVars, config, strategy, calls>>

\* the step with callback(findings) called whatever the length of findings
P_Stamp_AlwaysCalls ==
    /\ poll.pc = "stamp"
    /\ LET n == Len(poll.findings)
       IN  poll' = [poll EXCEPT !.last_poll_time = now,
                                !.received_callback = (n > 0),
                                !.total_findings = @ + n,
                                !.delivered = @ \cup {poll.findings[k] : k \in 1..n},
                                !.pc = "callback"]
    /\ UNCHANGED <<coreVars, now, limVars, config, strategy, calls>>

\* last_poll_time = time.time(); received_callback = len(findings) > 0; then, with
\* findings, total_findings += len(findings) and callback(findings) is called
P_Stamp ==
    /\ poll.pc = "stamp"
    /\ LET n == Len(poll.findings)
       IN  poll' = [poll EXCEPT !.last_poll_time = now,
                                !.received_callback = (n > 0),
                                !.total_findings = IF n > 0 THEN @ + n ELSE @,
                                !.delivered = @ \cup {poll.findings[k] : k \in 1..n},
                                !.pc = IF n > 0 THEN "callback" ELSE "interval"]
    /\ UNCHANGED <<coreVars, now, limVars, config, strategy, calls>>

\* callback(findings) returns
P_Callback ==
    /\ poll.pc = "callback"
    /\ poll' = [poll EXCEPT !.pc = "interval"]
    /\ UNCHANGED <<coreVars, now, limVars, config, strategy, calls>>

\* interval = strategy.get_next_interval(received_callback)
P_Interval ==
    /\ poll.pc = "interval"
    /\ LET after == get_next_interval(strategy, config, poll.received_callback, now)
       IN  /\ strategy' = after
           /\ poll' = [poll EXCEPT !.interval = after.current_interval, !.pc = "sleep"]
           /\ calls' = Append(calls, [received_callback |-> poll.received_callback,
                                      returned |-> after.current_interval,
                                      quiet_polls |-> after.quiet_polls])
    /\ UNCHANGED <<coreVars, now, limVars, config>>

\* time.sleep(interval) returns, interval or more after it was called
P_Sleep ==
    /\ poll.pc = "sleep"
    /\ \E over \in 0..1 : now' = now + Ceil(poll.interval) + over
    /\ poll' = [poll EXCEPT !.pc = "check"]
    /\ UNCHANGED <<coreVars, limVars, config, strategy, calls>>

\* the exceptions a step of the loop body can raise: sqlite3 errors of the
\* store query, any error of the user callback, KeyboardInterrupt anywhere
Raisable(at) ==
    IF at = "query" THEN {"KeyboardInterrupt", "OperationalError"}
    ELSE IF at = "callback" THEN {"KeyboardInterrupt", "Exception"}
    ELSE {"KeyboardInterrupt"}

\* the store query, the user callback or the sleep raises: the except clause
\* re-raises KeyboardInterrupt and no clause catches anything else, so the
\* exception leaves the function
P_Raise ==
    /\ poll.pc \in {"query", "callback", "sleep"}
    /\ \E error \in Raisable(poll.pc) :
         poll' = [poll EXCEPT !.pc = "raised", !.error = error]
    /\ UNCHANGED <<coreVars, now, limVars, config, strategy, calls>>

InitPoll ==
    /\ InitCore
    /\ now = 0
    /\ LimiterUnused
    /\ config \in PollConfigs
    /\ strategy = NewStrategy(config)
    /\ poll = NoPoll
    /\ calls = <<>>

NextPoll ==
    \/ P_Start
    \/ P_Check
    \/ P_Query
    \/ P_Stamp
    \/ P_Callback
    \/ P_Interval
    \/ P_Sleep
    \/ P_Raise

SpecPoll == InitPoll /\ [][NextPoll]_vars

\* the polling task is scheduled whenever it can take a step
SpecPollFair == SpecPoll /\ WF_vars(NextPoll)

(***************************************************************************)
(* The store alone: one client calling InjectionStore's methods one after  *)
(* another, the wall clock (time.time(), non-decreasing) advancing between *)
(* the calls.  Each method runs in one connection and one transaction.     *)
(***************************************************************************)
\* the records handed to record_injection: two contexts for ID_A, one for ID_B
SampleRecords ==
    { [id |-> x[1], target_url |-> <<"h","t","t","p",":","/","/","t","/">>,
       parameter |-> <<"q","u","e","r","y",":","q">>,
       payload |-> substitute_callback(p, CallbackUrl, x[1]),
       timestamp |-> 1, context |-> x[2]] :
        x \in { <<ID_A, None>>, <<ID_A, <<"X","s","s">> >>, <<ID_B, <<"S","S","T","I">> >> },
        p \in Templates }

\* record_injection(record) written with INSERT OR REPLACE
ST_RecordInjection_Replaces ==
    /\ \E record \in SampleRecords :
         /\ injections' = {r \in injections : r.id # record.id} \cup {RowOfRecord(record)}
         /\ op' = [name |-> "record_injection", record |-> record, error |-> "none"]
    /\ UNCHANGED <<callbacks, dbLock, pc, cid, injVars, hdlVars, srv, now, limVars, pollVars>>

\* record_injection(record)
ST_RecordInjection ==
    /\ \E record \in SampleRecords :
         IF PrimaryKeyOK(injections, record.id)
         THEN /\ injections' = injections \cup {RowOfRecord(record)}
              /\ op' = [name |-> "record_injection", record |-> record, error |-> "none"]
         ELSE /\ injections' = injections
              /\ op' = [name |-> "record_injection", record |-> record,
                        error |-> "IntegrityError"]
    /\ UNCHANGED <<callbacks, dbLock, pc, cid, injVars, hdlVars, srv, now, limVars, pollVars>>

\* record_callback(correlation_id, ...)
ST_RecordCallback ==
    /\ Len(callbacks) < MaxRequests
    /\ \E c \in {ID_A, ID_B} :
         IF InjectionExists(injections, c)
         THEN /\ callbacks' = InsertCallback(callbacks, CallbackRow(c, <<"/">> \o c, now))
              /\ op' = [name |-> "record_callback", correlation_id |-> c, ret |-> TRUE]
         ELSE /\ callbacks' = callbacks
              /\ op' = [name |-> "record_callback", correlation_id |-> c, ret |-> FALSE]
    /\ UNCHANGED <<injections, dbLock, pc, cid, injVars, hdlVars, srv, now, limVars, pollVars>>

\* get_injection(correlation_id)
ST_GetInjection ==
    /\ \E c \in {ID_A, ID_B} :
         op' = [name |-> "get_injection", correlation_id |-> c,
                ret |-> get_injection(injections, c)]
    /\ UNCHANGED <<storeVars, pc, cid, injVars, hdlVars, srv, now, limVars, pollVars>>

\* get_findings(since, min_severity)
ST_GetFindings ==
    /\ \E since \in {NoTime} \cup 0..now, min_severity \in {"info", "low", "medium", "high"} :
         \E ret \in get_findings(injections, callbacks, since, min_severity) :
            op' = [name |-> "get_findings", since |-> since,
                   min_severity |-> min_severity, ret |-> ret]
    /\ UNCHANGED <<storeVars, pc, cid, injVars, hdlVars, srv, now, limVars, pollVars>>

\* finding.severity of a Finding with the given context
F_Severity ==
    /\ \E context \in { None, <<"c","r","a","w","l">>, <<"S","S","T","I">>,
                         <<"s","q","l","i">>, <<"X","s","s">>,
                         <<"x","s","s","+","S","s","t","i">> } :
         op' = [name |-> "severity", context |-> context, ret |-> severity(context)]
    /\ UNCHANGED <<storeVars, pc, cid, injVars, hdlVars, srv, now, limVars, pollVars>>

\* the wall clock advances between two calls
WallTick ==
    /\ now < MaxNow
    /\ now' = now + 1
    /\ UNCHANGED <<coreVars, limVars, pollVars>>

NextStore ==
    \/ ST_RecordInjection
    \/ ST_RecordCallback
    \/ ST_GetInjection
    \/ ST_GetFindings
    \/ F_Severity
    \/ WallTick

SpecStore == Init /\ [][NextStore]_vars

(***************************************************************************)
(* poll_for_callbacks on the store while the HTTP server records           *)
(* callbacks: ID_A was injected earlier, handler thread h1 and the polling *)
(* task interleave freely, and the wall clock advances between any         *)
(* two of their steps as well as in the sleep.                             *)
(***************************************************************************)
InitPollStore ==
    /\ injections = {RowOfRecord(r) : r \in {x \in SampleRecords : x.id = ID_A /\ x.context = None}}
    /\ callbacks = <<>>
    /\ dbLock = NoThread
    /\ pc = [t \in Threads |-> "idle"]
    /\ cid = [t \in Threads |-> None]
    /\ call = [i \in Injectors |-> NoCall]
    /\ result = [i \in Injectors |-> NoResult]
    /\ trace = [i \in Injectors |-> <<>>]
    /\ rl_tokens = [i \in Injectors |-> Burst]
    /\ sent = {ID_A}
    /\ req = [t \in Handlers |-> None]
    /\ found = [t \in Handlers |-> FALSE]
    /\ recorded = [t \in Handlers |-> "unset"]
    /\ response = [t \in Handlers |-> NoResponse]
    /\ afterSend = [t \in Handlers |-> FALSE]
    /\ nInj = 0
    /\ nReq = 0
    /\ received_at = [t \in Handlers |-> NoTime]
    /\ op = [name |-> "none"]
    /\ srv = [s \in {"http", "dns"} |-> [shutdown |-> FALSE, pc |-> "handle"]]
    /\ now = 0
    /\ LimiterUnused
    /\ config = PollingConfig(Whole(1), Whole(8), Whole(2), TRUE, MaxPolls - 2)
    /\ strategy = NewStrategy(config)
    /\ poll = NoPoll
    /\ calls = <<>>

NextPollStore ==
    \/ P_Start
    \/ P_Check
    \/ PS_Query
    \/ P_Stamp
    \/ P_Callback
    \/ P_Interval
    \/ P_Sleep
    \/ WallTick
    \/ H_Arrive("h1", {p \in HttpPaths : HttpExtract(UrlParse(p).path) = ID_A})
    \/ H_Respond("h1")
    \/ RC_Select("h1")
    \/ RC_Insert("h1")
    \/ RC_Commit("h1")

SpecPollStore == InitPollStore /\ [][NextPollStore]_vars

(***************************************************************************)
(* Contention on one RateLimiter without end: the callers of SpecLimiter   *)
(* make blocking acquire calls again and again.  Only differences of clock *)
(* readings enter the code, so the clock is kept relative to the oldest    *)
(* reading still held (last_update, or the start of a sleep in progress);  *)
(* a reading so old that the bucket is refilled to its capacity, or that   *)
(* the sleep is over, whatever the rate, is kept no older than that.       *)
(***************************************************************************)
\* acquire() is called with blocking left at True
K_Call(t) ==
    /\ limiter.state = "built"
    /\ acq[t].pc \in {"idle", "done"}
    /\ acq' = [acq EXCEPT ![t] = [NoAcquire EXCEPT !.pc = "enter", !.blocking = TRUE]]
    /\ UNCHANGED <<coreVars, now, ctor, limiter, grants, nAcq, pollVars>>

\* the rest of the with block, as A_Check, the returns not being listed
K_Check(t) ==
    /\ acq[t].pc = "check"
    /\ LET out == AcquireOutcome(limiter.tokens, acq[t].blocking)
       IN  /\ limiter' = [limiter EXCEPT !.tokens = out.tokens,
                                         !.lock = IF out.unlock THEN NoThread ELSE t]
           /\ acq' = [acq EXCEPT ![t].pc = out.pc, ![t].ret = out.ret,
                                 ![t].wait = out.wait, ![t].slept_from = now]
    /\ UNCHANGED <<coreVars, now, ctor, grants, nAcq, pollVars>>

\* the monotonic clock advances
K_Tick ==
    /\ LET Later(x, y) == IF x < y THEN y ELSE x
           last_update == Later(limiter.last_update, now + 1 - limiter.burst * TokenScale)
           slept_from(t) == Later(acq[t].slept_from, now + 1 - TokenScale)
           held == {last_update}
                      \cup {slept_from(t) : t \in {c \in Callers : acq[c].pc = "sleep"}}
           oldest == CHOOSE x \in held : \A y \in held : x <= y
       IN  /\ now' = now + 1 - oldest
           /\ limiter' = [limiter EXCEPT !.last_update = last_update - oldest]
           /\ acq' = [t \in Callers |->
                         [acq[t] EXCEPT !.slept_from =
                              IF acq[t].pc = "sleep" THEN slept_from(t) - oldest ELSE 0]]
    /\ UNCHANGED <<coreVars, ctor, grants, nAcq, pollVars>>

InitContend ==
    /\ InitCore
    /\ now = 0
    /\ \E rate \in Rates, burst \in Bursts :
         /\ InitError(rate, burst) = "none"
         /\ ctor = [called |-> TRUE, rate |-> rate, burst |-> burst, error |-> "none"]
         /\ limiter = NewLimiter(rate, burst, 0)
    /\ acq = [t \in Callers |-> NoAcquire]
    /\ grants = <<>>
    /\ nAcq = 0
    /\ PollerUnused

NextContend ==
    \/ K_Tick
    \/ \E t \in Callers : K_Call(t)
    \/ \E t \in Callers : A_Lock(t)
    \/ \E t \in Callers : A_Refill(t)
    \/ \E t \in Callers : K_Check(t)
    \/ \E t \in Callers : A_Wake(t)

\* every thread goes on running, gets the lock if it is free again and again,
\* and the clock advances
SpecContendFair ==
    /\ InitContend /\ [][NextContend]_vars
    /\ WF_vars(K_Tick)
    /\ \A t \in Callers : SF_vars(A_Lock(t))
    /\ \A t \in Callers : WF_vars(A_Refill(t))
    /\ \A t \in Callers : WF_vars(K_Check(t))
    /\ \A t \in Callers : WF_vars(A_Wake(t))

(***************************************************************************)
(* One run of the command-line process, which makes one call: op holds    *)
(* the call, its inputs and what it has produced so far.                   *)
(***************************************************************************)
\* payload templates as the pieces they are written from: literal text and
\* placeholders in the four forms (and in mixed case), up to MaxParts pieces
SampleParts ==
    LET pieces == { <<"<",">">>, <<"$">>, <<"{">>, <<"}">>,
                    <<"{","{","C","A","L","L","B","A","C","K","}","}">>,
                    <<"{","{","c","a","l","l","b","a","c","k","}","}">>,
                    <<"{","C","A","L","L","B","A","C","K","}">>,
                    <<"$","{","C","A","L","L","B","A","C","K","}">>,
                    <<"{","{","C","a","l","l","b","a","c","k","}","}">> }
    IN  UNION { [1..n -> pieces] : n \in 1..MaxParts }

\* substitute_callback(payload, callback_url, correlation_id)
U_Substitute ==
    /\ op.name = "none"
    /\ \E parts \in SampleParts, correlation_id \in {ID_A},
          callback_url \in { RStrip(CallbackUrl, "/"), CallbackUrl, CallbackUrl \o <<"/">> } :
         LET payload == Join(parts, <<>>)
         IN  op' = [name |-> "substitute_callback", parts |-> parts, payload |-> payload,
                    callback_url |-> callback_url, correlation_id |-> correlation_id,
                    ret |-> substitute_callback(payload, callback_url, correlation_id)]
    /\ UNCHANGED <<storeVars, pc, cid, injVars, hdlVars, srv, now, limVars, pollVars>>

(***************************************************************************)
(* Injection of a payload at a vector.  A ParsedRequest is its path, its   *)
(* headers (a dict: the (name, value) pairs in insertion order) and its    *)
(* body (None or the text of the bytes).                                   *)
(***************************************************************************)
\* str.strip() of a text whose only whitespace is the space
RECURSIVE Strip(_)
Strip(s) ==
    IF s # <<>> /\ s[1] = " " THEN Strip(Tail(s)) ELSE RStrip(s, " ")

\* str.lower()
StrLower(s) == [k \in 1..Len(s) |-> Lower(s[k])]

\* parse_qsl(qs, keep_blank_values=True): the (name, value) pairs in order
parse_qsl(qs) ==
    LET hex(d) == CASE d = <<"3","B">> -> ";" [] d = <<"2","6">> -> "&"
                    [] d = <<"3","D">> -> "=" [] d = <<"2","5">> -> "%"
                    [] d = <<"2","B">> -> "+" [] OTHER -> ""
        RECURSIVE unquote(_)
        unquote(s) ==
            IF s = <<>> THEN <<>>
            ELSE IF s[1] = "+" THEN <<" ">> \o unquote(Tail(s))
            ELSE IF s[1] = "%" /\ Len(s) >= 3 /\ hex(SubSeq(s, 2, 3)) # ""
                 THEN <<hex(SubSeq(s, 2, 3))>> \o unquote(SubSeq(s, 4, Len(s)))
            ELSE <<s[1]>> \o unquote(Tail(s))
        name_value_pairs == NonEmpty(Split(qs, "&"))
        nv(name_value) ==
            LET i == Find(name_value, "=", 1)
            IN  IF i = 0 THEN <<unquote(name_value), <<>> >>
                ELSE <<unquote(SubSeq(name_value, 1, i - 1)),
                       unquote(SubSeq(name_value, i + 1, Len(name_value)))>>
    IN  [k \in 1..Len(name_value_pairs) |-> nv(name_value_pairs[k])]

\* urlencode(params): quote_plus of every name and value, joined by = and &
urlencode(params) ==
    LET quote(ch) == CASE ch = " " -> <<"+">> [] ch = ";" -> <<"%","3","B">>
                      [] ch = "&" -> <<"%","2","6">> [] ch = "=" -> <<"%","3","D">>
                      [] ch = "%" -> <<"%","2","5">> [] ch = "+" -> <<"%","2","B">>
                      [] OTHER -> <<ch>>
        quote_plus(s) == Join([k \in 1..Len(s) |-> quote(s[k])], <<>>)
    IN  Join([k \in 1..Len(params) |->
                 quote_plus(params[k][1]) \o <<"=">> \o quote_plus(params[k][2])], <<"&">>)

\* json.loads of a body followed by isinstance(data, dict): {} when the text
\* is no object, else the one dict, as its (key, value) pairs in order.  A
\* value is kept as its JSON token, so a string value is the token in
\* quotes.  The texts read here are one-level objects with distinct keys
\* whose strings hold no comma, colon, quote or backslash.
json_loads(body_str) ==
    IF Len(body_str) < 2 \/ body_str[1] # "{" \/ body_str[Len(body_str)] # "}" THEN {}
    ELSE LET members == NonEmpty(Split(SubSeq(body_str, 2, Len(body_str) - 1), ","))
             member(m) ==
                 LET i   == Find(m, ":", 1)
                     key == Strip(SubSeq(m, 1, i - 1))
                 IN  <<SubSeq(key, 2, Len(key) - 1), Strip(SubSeq(m, i + 1, Len(m)))>>
         IN  IF \E k \in 1..Len(members) : Find(members[k], ":", 1) = 0 THEN {}
             ELSE { [k \in 1..Len(members) |-> member(members[k])] }

\* json.dumps of a str: quotes and backslashes escaped, in quotes
json_dumps_str(s) ==
    LET esc(ch) == IF ch \in {"\"", "\\"} THEN <<"\\", ch>> ELSE <<ch>>
    IN  <<"\"">> \o Join([k \in 1..Len(s) |-> esc(s[k])], <<>>) \o <<"\"">>

\* json.dumps(data) with the default separators
json_dumps(data) ==
    <<"{">> \o Join([k \in 1..Len(data) |->
                        json_dumps_str(data[k][1]) \o <<":", " ">> \o data[k][2]],
                    <<",", " ">>) \o <<"}">>

INJECTABLE_HEADERS ==
    { <<"U","s","e","r","-","A","g","e","n","t">>,
      <<"R","e","f","e","r","e","r">>,
      <<"X","-","F","o","r","w","a","r","d","e","d","-","F","o","r">>,
      <<"X","-","F","o","r","w","a","r","d","e","d","-","H","o","s","t">>,
      <<"X","-","C","u","s","t","o","m","-","I","P","-","A","u","t","h","o","r","i","z","a","t","i","o","n">>,
      <<"X","-","O","r","i","g","i","n","a","l","-","U","R","L">>,
      <<"X","-","R","e","w","r","i","t","e","-","U","R","L">>,
      <<"X","-","C","l","i","e","n","t","-","I","P">>,
      <<"T","r","u","e","-","C","l","i","e","n","t","-","I","P">>,
      <<"F","o","r","w","a","r","d","e","d">>,
      <<"O","r","i","g","i","n">> }

\* the value of the first header whose lowered name is name, None without one
HeaderValue(request, name) ==
    LET hits == {k \in 1..Len(request.headers) : StrLower(request.headers[k][1]) = name}
    IN  IF hits = {} THEN None
        ELSE request.headers[CHOOSE k \in hits : \A j \in hits : k <= j][2]

\* urlparse(request.path).query
PathQuery(request) ==
    LET i == Find(request.path, "?", 1)
    IN  IF i = 0 THEN <<>> ELSE SubSeq(request.path, i + 1, Len(request.path))

\* The items of a Cookie header value: cookie_header.split(';'), each stripped
CookieItems(cookie_header) ==
    LET cookies == Split(cookie_header, ";")
    IN  [k \in 1..Len(cookies) |-> Strip(cookies[k])]

extract_vectors(request) ==
    LET Vector(location, name, value) ==
            [location |-> location, name |-> name, original_value |-> value]
        params == parse_qsl(PathQuery(request))
        query == [k \in 1..Len(params) |-> Vector("query", params[k][1], params[k][2])]
        injectable == SelectSeq(request.headers,
                          LAMBDA h : \E i \in INJECTABLE_HEADERS : StrLower(h[1]) = StrLower(i))
        headers == [k \in 1..Len(injectable) |->
                       Vector("header", injectable[k][1], injectable[k][2])]
        cookie_header == HeaderValue(request, <<"c","o","o","k","i","e">>)
        with_eq == IF cookie_header \in {None, <<>>} THEN <<>>
                   ELSE SelectSeq(CookieItems(cookie_header), LAMBDA c : Find(c, "=", 1) # 0)
        cookies == [k \in 1..Len(with_eq) |->
                       LET i == Find(with_eq[k], "=", 1)
                       IN  Vector("cookie", Strip(SubSeq(with_eq[k], 1, i - 1)),
                                  Strip(SubSeq(with_eq[k], i + 1, Len(with_eq[k]))))]
        content_type == IF HeaderValue(request, <<"c","o","n","t","e","n","t","-","t","y","p","e">>) = None THEN <<>>
                        ELSE StrLower(HeaderValue(request, <<"c","o","n","t","e","n","t","-","t","y","p","e">>))
        form == parse_qsl(request.body)
        data == json_loads(request.body)
        strings(d) == SelectSeq(d, LAMBDA m : m[2] # <<>> /\ m[2][1] = "\"")
        RECURSIVE unescape(_)
        unescape(t) ==
            IF t = <<>> THEN <<>>
            ELSE IF t[1] = "\\" /\ Len(t) >= 2 THEN <<t[2]>> \o unescape(SubSeq(t, 3, Len(t)))
            ELSE <<t[1]>> \o unescape(Tail(t))
        body == IF request.body \in {None, <<>>} THEN <<>>
                ELSE IF Contains(content_type, <<"a","p","p","l","i","c","a","t","i","o","n","/","x","-","w","w","w","-","f","o","r","m","-","u","r","l","e","n","c","o","d","e","d">>)
                THEN [k \in 1..Len(form) |-> Vector("body", form[k][1], form[k][2])]
                ELSE IF Contains(content_type, <<"a","p","p","l","i","c","a","t","i","o","n","/","j","s","o","n">>) /\ data # {}
                THEN LET d == strings(CHOOSE x \in data : TRUE)
                     IN  [k \in 1..Len(d) |->
                             Vector("json", d[k][1], unescape(SubSeq(d[k][2], 2, Len(d[k][2]) - 1)))]
                ELSE <<>>
    IN  query \o headers \o cookies \o body

\* Injector._inject_payload(request, vector, payload)
inject_payload(request, vector, payload) ==
    LET Replace(params) == [k \in 1..Len(params) |->
                               IF params[k][1] = vector.name THEN <<params[k][1], payload>>
                               ELSE params[k]]
        \* inject_into_path: urlunparse drops the "?" of an empty query
        i == Find(request.path, "?", 1)
        new_query == urlencode(Replace(parse_qsl(PathQuery(request))))
        new_url == (IF i = 0 THEN request.path ELSE SubSeq(request.path, 1, i - 1))
                   \o (IF new_query = <<>> THEN <<>> ELSE <<"?">> \o new_query)
        \* _inject_header: the first key that matches, whatever its case
        FirstKey(name) ==
            LET hits == {k \in 1..Len(request.headers) :
                            StrLower(request.headers[k][1]) = name}
            IN  IF hits = {} THEN 0 ELSE CHOOSE k \in hits : \A j \in hits : k <= j
        h == FirstKey(StrLower(vector.name))
        \* _inject_cookie
        c == FirstKey(<<"c","o","o","k","i","e">>)
        items == NonEmpty(CookieItems(request.headers[c][2]))
        new_cookie(cookie) ==
            LET e == Find(cookie, "=", 1)
            IN  IF e = 0 THEN cookie
                ELSE IF Strip(SubSeq(cookie, 1, e - 1)) = vector.name
                THEN Strip(SubSeq(cookie, 1, e - 1)) \o <<"=">> \o payload
                ELSE Strip(SubSeq(cookie, 1, e - 1)) \o <<"=">>
                     \o SubSeq(cookie, e + 1, Len(cookie))
        new_cookies == [k \in 1..Len(items) |-> new_cookie(items[k])]
        \* _inject_json_body
        data == json_loads(request.body)
        dict == CHOOSE x \in data : TRUE
        new_data == [k \in 1..Len(dict) |->
                        IF dict[k][1] = vector.name
                        THEN <<dict[k][1], json_dumps_str(payload)>> ELSE dict[k]]
    IN  CASE vector.location = "query" -> [request EXCEPT !.path = new_url]
          [] vector.location = "header" ->
               IF h = 0 THEN request
               ELSE [request EXCEPT !.headers[h][2] = payload]
          [] vector.location = "cookie" ->
               IF c = 0 THEN request
               ELSE [request EXCEPT !.headers[c][2] = Join(new_cookies, <<";", " ">>)]
          [] vector.location = "body" ->
               IF request.body = None THEN request
               ELSE [request EXCEPT !.body = urlencode(Replace(parse_qsl(request.body)))]
          [] vector.location = "json" ->
               IF request.body = None \/ data = {} THEN request
               ELSE IF \E k \in 1..Len(dict) : dict[k][1] = vector.name
               THEN [request EXCEPT !.body = json_dumps(new_data)]
               ELSE request
          [] OTHER -> request

\* Requests read from a request file, and the payloads put into them
SampleRequests ==
    { [path |-> <<"/","p","?","a","=","1","&","b","=","2">>,
       headers |-> << <<<<"H","o","s","t">>, <<"t">> >>, <<<<"C","o","o","k","i","e">>, <<"s","=","1",";"," ","u","=","2">>>>,
                      <<<<"U","s","e","r","-","A","g","e","n","t">>, <<"x">> >>, <<<<"C","o","n","t","e","n","t","-","T","y","p","e">>, <<"a","p","p","l","i","c","a","t","i","o","n","/","x","-","w","w","w","-","f","o","r","m","-","u","r","l","e","n","c","o","d","e","d">>>> >>,
       body |-> <<"f","=","1","&","g","=","2">>],
      [path |-> <<"/","p","?","a","=","1","&","a","=","2","&","c">>,
       headers |-> << <<<<"H","o","s","t">>, <<"t">> >>, <<<<"c","o","o","k","i","e">>, <<"s","=","1",";","s","=","2",";"," ","f","l","a","g">>>>,
                      <<<<"C","o","n","t","e","n","t","-","T","y","p","e">>, <<"a","p","p","l","i","c","a","t","i","o","n","/","j","s","o","n">>>> >>,
       body |-> <<"{","\"","k","\"",":"," ","\"","v","\"",","," ","\"","n","\"",":"," ","1","}">>],
      [path |-> <<"/","p">>,
       headers |-> << <<<<"H","o","s","t">>, <<"t">> >>, <<<<"R","e","f","e","r","e","r">>, <<"r">> >> >>,
       body |-> None] }

SamplePayloads ==
    { <<"P">>, <<"P",";","Q">>, <<"P","=","Q">>, <<"P","&","Q">>, <<"P"," ","Q">>,
      <<"\"","P">> }

\* One Injector._inject_payload call on a vector extracted from the request.
\* The call writes into copies only, so the request it was given holds after
\* the call what it held before.
U_Inject ==
    /\ op.name = "none"
    /\ \E request \in SampleRequests, payload \in SamplePayloads :
         \E v \in 1..Len(extract_vectors(request)) :
            LET vector == extract_vectors(request)[v]
            IN  op' = [name |-> "inject_payload", request |-> request, vector |-> vector,
                       payload |-> payload, request_after |-> request,
                       ret |-> inject_payload(request, vector, payload)]
    /\ UNCHANGED <<storeVars, pc, cid, injVars, hdlVars, srv, now, limVars, pollVars>>


(***************************************************************************)
(* ActiveTrigger.probe_all(endpoints, callback): op holds the call, the    *)
(* number of endpoints done, the results list and, in order, the token     *)
(* acquisitions, the requests sent and the callback invocations.  The      *)
(* acquire on the trigger's own RateLimiter blocks until it has a token.   *)
(***************************************************************************)
\* probe_endpoint catching TimeoutError only
probe_endpoint_TimeoutOnly(endpoint, outcome) ==
    LET path == IF endpoint = <<>> \/ endpoint[1] # "/" THEN <<"/">> \o endpoint ELSE endpoint
    IN  CASE outcome = "response" ->
               {[endpoint |-> path, status |-> {200}, error |-> "None", response_size |-> 2]}
          [] outcome = "TimeoutError" ->
               {[endpoint |-> path, status |-> {}, error |-> "timeout", response_size |-> 0]}
          [] OTHER -> {}

\* probe_endpoint(endpoint) when send_request ends in outcome: the one
\* TriggerResult returned, or {} when the exception leaves the method.  An
\* Optional[int] status is {} for None; error is "None" or the message.
probe_endpoint(endpoint, outcome) ==
    LET path == IF endpoint = <<>> \/ endpoint[1] # "/" THEN <<"/">> \o endpoint ELSE endpoint
    IN  CASE outcome = "response" ->
               {[endpoint |-> path, status |-> {200}, error |-> "None", response_size |-> 2]}
          [] outcome = "TimeoutError" ->
               {[endpoint |-> path, status |-> {}, error |-> "timeout", response_size |-> 0]}
          [] outcome = "ConnectionError" ->
               {[endpoint |-> path, status |-> {}, error |-> "str(e)", response_size |-> 0]}
          [] OTHER -> {}

SampleEndpoints ==
    UNION { [1..n -> { <<"/","a">>, <<"l">>, <<>> }] : n \in 0..MaxEndpoints }

\* probe_all(endpoints, callback) is called
T_Start ==
    /\ op.name = "none"
    /\ \E endpoints \in SampleEndpoints, has_callback \in BOOLEAN :
         op' = [name |-> "probe_all", endpoints |-> endpoints, has_callback |-> has_callback,
                pc |-> "for", results |-> <<>>, outcomes |-> <<>>, trace |-> <<>>]
    /\ UNCHANGED <<storeVars, pc, cid, injVars, hdlVars, srv, now, limVars, pollVars>>

\* for endpoint in endpoints: self._rate_limiter.acquire() returns
T_Acquire ==
    /\ op.name = "probe_all"
    /\ op.pc = "for"
    /\ Len(op.results) < Len(op.endpoints)
    /\ op' = [op EXCEPT !.pc = "probe",
                        !.trace = Append(@, [event |-> "acquire", n |-> Len(op.results) + 1])]
    /\ UNCHANGED <<storeVars, pc, cid, injVars, hdlVars, srv, now, limVars, pollVars>>

\* result = self.probe_endpoint(endpoint); results.append(result); callback(result)
T_Probe ==
    /\ op.name = "probe_all"
    /\ op.pc = "probe"
    /\ \E outcome \in SendOutcomes :
         LET n == Len(op.results) + 1
             returned == probe_endpoint(op.endpoints[n], outcome)
             the_result == CHOOSE r \in returned : TRUE
             probed == Append(op.trace, [event |-> "probe", n |-> n])
         IN  IF returned = {}
             THEN op' = [op EXCEPT !.pc = "raised", !.trace = probed,
                                   !.outcomes = Append(@, outcome)]
             ELSE op' = [op EXCEPT !.pc = "for",
                                   !.results = Append(@, the_result),
                                   !.outcomes = Append(@, outcome),
                                   !.trace = IF op.has_callback
                                             THEN Append(probed, [event |-> "callback", n |-> n])
                                             ELSE probed]
    /\ UNCHANGED <<storeVars, pc, cid, injVars, hdlVars, srv, now, limVars, pollVars>>

\* the loop is over: return results
T_Return ==
    /\ op.name = "probe_all"
    /\ op.pc = "for"
    /\ Len(op.results) = Len(op.endpoints)
    /\ op' = [op EXCEPT !.pc = "returned"]
    /\ UNCHANGED <<storeVars, pc, cid, injVars, hdlVars, srv, now, limVars, pollVars>>

(***************************************************************************)
(* Crawler.crawl(seed_url).  A URL is its scheme, netloc and path, an href *)
(* the same with a fragment; an href without netloc is relative and one    *)
(* without scheme takes the scheme of its page.  op holds the call, the    *)
(* queue, the visited set and the results, and, in order, the token        *)
(* acquisitions and the fetches; parent remembers for every URL put into   *)
(* the queue the result whose links it came from.                          *)
(***************************************************************************)
Url(scheme, netloc, path) == [scheme |-> scheme, netloc |-> netloc, path |-> path]

Href(scheme, netloc, path, fragment) ==
    [scheme |-> scheme, netloc |-> netloc, path |-> path, fragment |-> fragment]

\* normalize_url(base_url, href): {} for None, else the one URL
normalize_url(base_url, href) ==
    IF href.scheme \in {"javascript", "mailto", "tel", "data"} THEN {}
    ELSE IF href.scheme = "" /\ href.netloc = "" /\ href.path = "" /\ href.fragment # "" THEN {}
    ELSE LET full_url == IF href.scheme # "" THEN Url(href.scheme, href.netloc, href.path)
                         ELSE IF href.netloc # ""
                         THEN Url(base_url.scheme, href.netloc, href.path)
                         ELSE Url(base_url.scheme, base_url.netloc,
                                  IF href.path = "" THEN base_url.path ELSE href.path)
         IN  IF full_url.scheme \notin {"http", "https"} \/ full_url.netloc = "" THEN {}
             ELSE {full_url}

\* the loop over result.links without the same-domain check
RECURSIVE QueueLinks_NoDomainCheck(_, _, _, _, _)
QueueLinks_NoDomainCheck(c, url, depth, links, n) ==
    IF links = <<>> THEN c
    ELSE LET normalized == normalize_url(url, Head(links))
             u == CHOOSE x \in normalized : TRUE
             skip == \/ normalized = {}
                     \/ \E ext \in {".pdf", ".png", ".css", ".js"} : u.path = "/i" \o ext
                     \/ u \in c.visited
         IN  QueueLinks_NoDomainCheck(
                 IF skip THEN c
                 ELSE [c EXCEPT !.visited = @ \cup {u},
                                !.queue = Append(@, [url |-> u, depth |-> depth + 1]),
                                !.parent = @ \cup {<<u, n>>}],
                 url, depth, Tail(links), n)

\* for link in result.links: normalize, same-domain check (netloc compared in
\* lower case), skip of binary files (a path ending in one of SKIP_EXTENSIONS),
\* skip of visited URLs, then visited.add and queue.append
RECURSIVE QueueLinks(_, _, _, _, _)
QueueLinks(c, url, depth, links, n) ==
    IF links = <<>> THEN c
    ELSE LET normalized == normalize_url(url, Head(links))
             u == CHOOSE x \in normalized : TRUE
             lower(netloc) == IF netloc = "T" THEN "t" ELSE netloc
             skip == \/ normalized = {}
                     \/ lower(c.seed_url.netloc) # lower(u.netloc)
                     \/ \E ext \in {".pdf", ".png", ".css", ".js"} : u.path = "/i" \o ext
                     \/ u \in c.visited
         IN  QueueLinks(
                 IF skip THEN c
                 ELSE [c EXCEPT !.visited = @ \cup {u},
                                !.queue = Append(@, [url |-> u, depth |-> depth + 1]),
                                !.parent = @ \cup {<<u, n>>}],
                 url, depth, Tail(links), n)

\* the links of the pages fetched
SampleLinks ==
    { << >>,
      << Href("", "", "/a", ""), Href("", "", "/b", "") >>,
      << Href("", "", "/a", "x"), Href("http", "t", "/a", ""), Href("", "", "/", "") >>,
      << Href("http", "o", "/a", ""), Href("https", "T", "/b", ""), Href("", "o", "/b", "") >>,
      << Href("javascript", "", "f()", ""), Href("", "", "", "top"),
         Href("ftp", "t", "/a", ""), Href("", "", "/i.png", ""), Href("", "", "/b", "") >> }

\* crawl(seed_url) is called: the seed normalised, queued and visited
C_Start ==
    /\ op.name = "none"
    /\ \E seed \in {Url("http", "t", "/"), Url("", "t", "/")},
          max_depth \in 0..MaxCrawl, max_pages \in 0..MaxCrawl :
         LET seed_url == IF seed.scheme = "" THEN [seed EXCEPT !.scheme = "http"] ELSE seed
         IN  op' = [name |-> "crawl", seed_url |-> seed_url, max_depth |-> max_depth,
                    max_pages |-> max_pages, pc |-> "while",
                    queue |-> <<[url |-> seed_url, depth |-> 0]>>, visited |-> {seed_url},
                    results |-> <<>>, trace |-> <<>>, parent |-> {}]
    /\ UNCHANGED <<storeVars, pc, cid, injVars, hdlVars, srv, now, limVars, pollVars>>

\* while queue and len(results) < max_pages: popleft, then in _process_page
\* self._rate_limiter.acquire() returns
C_Pop ==
    /\ op.name = "crawl"
    /\ op.pc = "while"
    /\ op.queue # <<>> /\ Len(op.results) < op.max_pages
    /\ op' = [op EXCEPT !.pc = "fetch", !.trace = Append(@, [event |-> "acquire"])]
    /\ UNCHANGED <<storeVars, pc, cid, injVars, hdlVars, srv, now, limVars, pollVars>>

\* the rest of _process_page and of the loop body: the request ends in an
\* exception or a response that is HTML or not, the result is appended, and
\* the links of a page without error below max_depth are queued
C_Page ==
    /\ op.name = "crawl"
    /\ op.pc = "fetch"
    /\ \E outcome \in SendOutcomes, html \in BOOLEAN, links \in SampleLinks :
         LET url == op.queue[1].url
             depth == op.queue[1].depth
             error == IF outcome # "response" THEN outcome
                      ELSE IF ~html THEN "Non-HTML content" ELSE "None"
             the_result == [url |-> url, depth |-> depth, error |-> error,
                            links |-> IF error = "None" THEN links ELSE <<>>]
             popped == [op EXCEPT !.pc = "while", !.queue = Tail(@),
                                  !.results = Append(@, the_result),
                                  !.trace = Append(@, [event |-> "fetch", url |-> url])]
         IN  /\ (error # "None" => links = <<>>)
             /\ op' = IF error # "None" \/ depth >= op.max_depth THEN popped
                      ELSE QueueLinks(popped, url, depth, the_result.links,
                                      Len(popped.results))
    /\ UNCHANGED <<storeVars, pc, cid, injVars, hdlVars, srv, now, limVars, pollVars>>

\* the loop condition is false: return results
C_Return ==
    /\ op.name = "crawl"
    /\ op.pc = "while"
    /\ ~(op.queue # <<>> /\ Len(op.results) < op.max_pages)
    /\ op' = [op EXCEPT !.pc = "returned"]
    /\ UNCHANGED <<storeVars, pc, cid, injVars, hdlVars, srv, now, limVars, pollVars>>

NextCli ==
    \/ U_Substitute
    \/ U_Inject
    \/ T_Start
    \/ T_Acquire
    \/ T_Probe
    \/ T_Return
    \/ C_Start
    \/ C_Pop
    \/ C_Page
    \/ C_Return

SpecCli == Init /\ [][NextCli]_vars

(***************************************************************************)
(* Properties.                                                             *)
(***************************************************************************)

\* C1: every row of callbacks has a correlation_id that is the id of a row of
\* injections, in every state reached by any interleaving of the injector and the
\* HTTP and DNS handlers.
C1_NoOrphanCallback ==
    \A k \in 1..Len(callbacks) : \E r \in injections : r.id = callbacks[k].correlation_id

\* a callback is stored for a known ID while a callback for an unknown ID was refused
C1_Witness ==
    /\ Len(callbacks) >= 1
    /\ \E t \in Handlers : recorded[t] = "false"

\* C2: record_callback returns False exactly when its check finds no injection row
\* with the given id, and then leaves callbacks unchanged; it returns True only by
\* inserting exactly one callback row for that id; callbacks changes in no other way.
C2_RecordCallbackContract ==
    [][ /\ \A t \in Handlers :
             /\ (pc[t] = "rc_select" /\ pc'[t] # "rc_select") =>
                    /\ (recorded'[t] = "false") <=> (\A r \in injections : r.id # cid[t])
                    /\ (recorded'[t] # "false") => (pc'[t] = "rc_insert")
                    /\ callbacks' = callbacks
             /\ (recorded[t] # "true" /\ recorded'[t] = "true") =>
                    /\ \E r \in injections : r.id = cid[t]
                    /\ Len(callbacks') = Len(callbacks) + 1
                    /\ SubSeq(callbacks', 1, Len(callbacks)) = callbacks
                    /\ callbacks'[Len(callbacks')].correlation_id = cid[t]
        /\ (callbacks' # callbacks) =>
               \E t \in Handlers : recorded[t] # "true" /\ recorded'[t] = "true"
      ]_vars

\* one call has returned True and another has returned False
C2_Witness ==
    \E t1, t2 \in Handlers : recorded[t1] = "true" /\ recorded[t2] = "false"

\* C3: while a record_callback call is between its existence check and its insert,
\* no write of another record_injection or record_callback takes effect.
C3_NoWriteBetweenCheckAndInsert ==
    [][ \A t \in Handlers :
            pc[t] = "rc_insert" => (injections' = injections /\ callbacks' = callbacks)
      ]_vars

\* C4: in a run of the injector the row is committed before the token is acquired
\* and the token is acquired before the request is sent; every ID whose request
\* was sent has its row.
C4_RecordThenAcquireThenSend ==
    /\ \A i \in Injectors :
          /\ \A k \in 1..Len(trace[i]) :
                /\ trace[i][k] = "acquire" => (k = 2 /\ trace[i][1] = "record")
                /\ trace[i][k] = "send" =>
                       (k = 3 /\ trace[i][2] = "acquire" /\ trace[i][1] = "record")
          /\ (Len(trace[i]) >= 1 /\ trace[i][1] = "record") =>
                 \E r \in injections : r.id = cid[i]
    /\ \A c \in sent : \E r \in injections : r.id = c

\* a run has recorded, acquired and sent
C4_Witness ==
    \E i \in Injectors : Len(trace[i]) >= 3 /\ trace[i][3] = "send"

\* C5: a callback that arrives after the injector issued the request for its ID
\* finds the row: the check succeeds, record_callback never returns False, and when
\* it returns the callback is stored (a locked database surfaces as a storage error).
C5_CallbackAfterSendFindsRow ==
    \A t \in Handlers : afterSend[t] =>
        /\ \E r \in injections : r.id = cid[t]
        /\ pc[t] # "rc_select" => found[t]
        /\ recorded[t] # "false"
        /\ pc[t] \in {"respond", "done"} =>
              /\ recorded[t] = "true"
              /\ \E k \in 1..Len(callbacks) : callbacks[k].correlation_id = cid[t]

\* the callback is stored while the injector still waits for the HTTP response
C5_Witness ==
    \E t \in Handlers, i \in Injectors :
        /\ afterSend[t] /\ recorded[t] = "true"
        /\ pc[i] = "await" /\ cid[i] = cid[t]

\* C6: a dry run of inject_vector records the row and nothing else: no acquire, no
\* send; when it returns, the result is the not-sent result and the store holds
\* exactly one row for its ID, with the substituted payload.
C6_DryRun ==
    \A i \in Injectors : (call[i].mode = "vector" /\ call[i].dry_run) =>
        /\ Len(trace[i]) <= 1
        /\ \A k \in 1..Len(trace[i]) : trace[i][k] = "record"
        /\ pc[i] \in {"record", "record_commit", "done", "raised"}
        /\ pc[i] = "done" =>
              /\ trace[i] = <<"record">>
              /\ result[i] = [correlation_id |-> cid[i], status |-> 0, success |-> TRUE,
                              error |-> "[dry-run] Request not sent"]
              /\ {r \in injections : r.id = cid[i]} =
                    { [id |-> cid[i],
                       payload |-> <<"<",">","h","t","t","p",":","/","/","c","b","/">> \o cid[i]] }

\* a dry run has returned
C6_Witness ==
    \E i \in Injectors : call[i].mode = "vector" /\ call[i].dry_run /\ pc[i] = "done"

\* C7: when send_request raises (timeout, connection failure, anything else),
\* inject_vector returns a result with success = False for its ID, and the row
\* recorded before the send is still in the store.
C7_SendFailureReturnsResult ==
    \A i \in Injectors :
        (\E k \in 1..Len(trace[i]) :
              trace[i][k] \in {"TimeoutError", "ConnectionError", "Exception"}) =>
            /\ pc[i] = "done"
            /\ result[i].success = FALSE
            /\ result[i].correlation_id = cid[i]
            /\ result[i].error \in {"Timeout", "Connection error", "Unexpected error"}
            /\ \E r \in injections : r.id = cid[i] /\ r.payload = call[i].final_payload

\* a send failed with an exception that is neither a timeout nor a connection error
C7_Witness ==
    \E i \in Injectors :
        /\ pc[i] = "done"
        /\ \E k \in 1..Len(trace[i]) : trace[i][k] = "Exception"

\* C8: two HTTP requests with the same path, one handled while its ID was unknown
\* to the store and one while it was known, get the same response.
C8_SameResponseKnownUnknown ==
    \A t1, t2 \in HttpThreads :
        ( /\ pc[t1] \in {"done", "aborted"} /\ pc[t2] \in {"done", "aborted"}
          /\ req[t1] = req[t2]
          /\ cid[t1] # None /\ ~found[t1] /\ found[t2] ) =>
            response[t1] = response[t2]

\* C9: every HTTP request and every well-formed DNS query whose handler has ended
\* has received the standard response, also when record_callback raised.
C9_AlwaysStandardResponse ==
    \A t \in Handlers :
        pc[t] \in {"done", "aborted"} =>
            IF t \in HttpThreads THEN response[t] = StdResponse
            ELSE response[t].status = 34176

\* C10: an ID reaches record_callback only if it is the candidate and has exactly
\* 16 characters, all in 0-9a-f; a request whose candidate is missing, of another
\* length or with another character has no ID extracted, makes no store call and
\* gets the standard response.
C10_OnlyHex16Recorded ==
    \A t \in Handlers : pc[t] \notin {"idle", "dropped"} =>
        LET parsedOk == IF t \in HttpThreads THEN UrlParse(req[t]).error = "" ELSE TRUE
            candidate == IF t \in HttpThreads THEN HttpCandidate(UrlParse(req[t]).path)
                         ELSE IF ParseQuestion(req[t]).qname = None THEN None
                         ELSE DnsCandidate(ParseQuestion(req[t]).qname)
            bad == \/ candidate = None
                   \/ Len(candidate) # 16
                   \/ \E k \in 1..Len(candidate) : candidate[k] \notin HexChars
        IN  /\ (recorded[t] # "unset" \/ pc[t] \in {"rc_select", "rc_insert", "rc_commit"}) =>
                  /\ cid[t] = candidate
                  /\ Len(cid[t]) = 16
                  /\ \A k \in 1..16 : cid[t][k] \in HexChars
            /\ (parsedOk /\ bad) =>
                  /\ cid[t] = None
                  /\ recorded[t] = "unset"
                  /\ pc[t] \in {"respond", "done"}
                  /\ pc[t] = "done" =>
                        IF t \in HttpThreads THEN response[t] = StdResponse
                        ELSE response[t].status = 34176

\* an HTTP request with a 17-character candidate and a DNS query with an uppercase
\* first label have both been answered
C10_Witness ==
    \E t1 \in HttpThreads, t2 \in DnsThreads :
        /\ pc[t1] = "done" /\ req[t1] = <<"/">> \o ID_17
        /\ pc[t2] = "done" /\ req[t2].name[1].data = ID_UPPER

\* C11: in every reachable state of a constructed limiter, whatever acquire
\* calls and refills any number of threads have made, the token count is at
\* most burst and not below zero.
C11_TokensWithinBucket ==
    limiter.state = "built" =>
        /\ limiter.tokens >= 0
        /\ limiter.tokens <= limiter.burst * TokenScale

\* a refill that would have overfilled the bucket (elapsed * rate alone is
\* more than burst) has left exactly burst tokens, after a token had been taken
C11_Witness ==
    \E t \in Callers :
        /\ acq[t].pc = "check"
        /\ grants # <<>>
        /\ acq[t].elapsed * limiter.rate > limiter.burst * TokenScale
        /\ limiter.tokens = limiter.burst * TokenScale

\* C12 (as stated): for any number of callers of one limiter, the acquire calls
\* that return True within any time window of length W, the window measured
\* between the instants of their returns, number at most rate * W + burst.
C12_ReturnsWithinWindow ==
    \A i, j \in 1..Len(grants) :
        i <= j =>
            (j - i + 1) * TokenScale
                <= limiter.rate * (grants[j].returned - grants[i].returned)
                   + limiter.burst * TokenScale

\* C12 (amended): the acquire calls granted a token by refills whose clock
\* readings lie within any window of length W number at most rate * W + burst,
\* and no token is handed out twice: the tokens left plus the tokens granted
\* never exceed the burst plus what the rate has supplied up to the last
\* clock reading.
C12_GrantsWithinWindow ==
    /\ \A i, j \in 1..Len(grants) :
           i <= j =>
               (j - i + 1) * TokenScale
                   <= limiter.rate * (grants[j].read - grants[i].read)
                      + limiter.burst * TokenScale
    /\ limiter.state = "built" =>
           limiter.tokens + Len(grants) * TokenScale
               <= limiter.burst * TokenScale + limiter.rate * limiter.last_update

\* two callers were granted tokens and the window between their clock readings
\* is filled to the bound
C12_Witness ==
    \E i, j \in 1..Len(grants) :
        /\ i < j
        /\ grants[i].by # grants[j].by
        /\ (j - i + 1) * TokenScale
               = limiter.rate * (grants[j].read - grants[i].read)
                 + limiter.burst * TokenScale

\* C13: RateLimiter(rate, burst) raises an error exactly when rate <= 0 or
\* burst < 1, and then there is no limiter; otherwise the limiter exists with
\* the rate and burst given and, before anyone has acquired, holds exactly
\* burst tokens.
C13_ConstructorContract ==
    ctor.called =>
        /\ (ctor.error # "none") <=> (ctor.rate <= 0 \/ ctor.burst < 1)
        /\ ctor.error # "none" =>
               /\ limiter = NoLimiter
               /\ \A t \in Callers : acq[t] = NoAcquire
        /\ ctor.error = "none" =>
               /\ limiter.state = "built"
               /\ limiter.rate = ctor.rate
               /\ limiter.burst = ctor.burst
               /\ nAcq = 0 => limiter.tokens = ctor.burst * TokenScale

\* a constructor call with a valid rate and burst 0 has failed
C13_Witness ==
    /\ ctor.called
    /\ ctor.rate > 0
    /\ ctor.burst < 1
    /\ ctor.error = "ValueError"
    /\ limiter = NoLimiter

\* C14: a caller of acquire that is sleeping (it found fewer than one token)
\* does not hold the limiter's lock: the lock is never held across a sleep.
C14_NoLockAcrossSleep ==
    \A t \in Callers :
        acq[t].pc = "sleep" => limiter.lock # t

\* while one caller sleeps, another has run acquire, seen a refill made after
\* the sleep began, and been granted a token
C14_Witness ==
    \E t, u \in Callers :
        /\ acq[t].pc = "sleep"
        /\ acq[u].pc = "done"
        /\ acq[u].ret = "True"
        /\ grants # <<>>
        /\ grants[Len(grants)].by = u
        /\ grants[Len(grants)].read > acq[t].slept_from

\* C15: acquire(blocking=False) never sleeps: the step that follows its refill
\* returns True and removes exactly one token when the refilled bucket holds
\* at least one, and otherwise returns False and leaves the token count at
\* its refilled value.
C15_NonBlockingStep ==
    [][\A t \in Callers :
          (acq[t].pc = "check" /\ ~acq[t].blocking /\ acq'[t] # acq[t]) =>
              /\ acq'[t].pc = "done"
              /\ IF limiter.tokens >= TokenScale
                 THEN /\ acq'[t].ret = "True"
                      /\ limiter'.tokens = limiter.tokens - TokenScale
                 ELSE /\ acq'[t].ret = "False"
                      /\ limiter'.tokens = limiter.tokens
              /\ limiter'.last_update = limiter.last_update]_vars

\* a non-blocking acquire has returned False on a bucket its refill had
\* brought to a fraction of a token, which is still there
C15_Witness ==
    \E t \in Callers :
        /\ acq[t].pc = "done"
        /\ ~acq[t].blocking
        /\ acq[t].ret = "False"
        /\ acq[t].elapsed > 0
        /\ limiter.tokens > 0
        /\ limiter.tokens < TokenScale

\* C16: on a fresh PollingStrategy with no callback observed, calls 1 to 5 of
\* get_next_interval return base_interval and call n >= 6 returns
\* min(base_interval * backoff_factor^(n-5), max_interval); for base 1, max 8,
\* factor 2 the calls return 1, 1, 1, 1, 1, 2, 4, 8, 8, 8, ...
C16_QuietSchedule ==
    \A n \in 1..Len(calls) :
        (\A k \in 1..n : ~calls[k].received_callback) =>
            /\ n <= 5 => calls[n].returned = config.base_interval
            /\ n >= 6 =>
                   calls[n].returned =
                       FMin(FMul(config.base_interval, FPow(config.backoff_factor, n - 5)),
                            config.max_interval)
            /\ ( /\ config.base_interval = Whole(1)
                 /\ config.max_interval = Whole(8)
                 /\ config.backoff_factor = Whole(2) ) =>
                   calls[n].returned =
                       Whole(IF n <= 5 THEN 1 ELSE IF n = 6 THEN 2 ELSE IF n = 7 THEN 4 ELSE 8)

\* nine quiet polls of the scenario: the eighth and the ninth both return 8 s
C16_Witness ==
    /\ config.base_interval = Whole(1)
    /\ config.max_interval = Whole(8)
    /\ config.backoff_factor = Whole(2)
    /\ Len(calls) >= 9
    /\ \A k \in 1..9 : ~calls[k].received_callback
    /\ calls[7].returned = Whole(4)
    /\ calls[8].returned = Whole(8)
    /\ calls[9].returned = Whole(8)

\* C17: no interval returned by get_next_interval, after any sequence of calls
\* with any mix of received_callback values, exceeds max_interval.
C17_NeverExceedsMax ==
    \A n \in 1..Len(calls) : ~FLess(config.max_interval, calls[n].returned)

\* C18: with reset_on_callback true, a call with received_callback = True
\* returns base_interval and leaves the quiet-poll counter at 0, however far
\* the interval had backed off; the 5 quiet polls that follow return
\* base_interval again, and the sixth is the first to back off.
C18_ResetOnCallback ==
    config.reset_on_callback =>
        \A n \in 1..Len(calls) :
            calls[n].received_callback =>
                /\ calls[n].returned = config.base_interval
                /\ calls[n].quiet_polls = 0
                /\ \A k \in 1..6 :
                       ( /\ n + k <= Len(calls)
                         /\ \A m \in (n + 1)..(n + k) : ~calls[m].received_callback ) =>
                           calls[n + k].returned =
                               IF k <= 5 THEN config.base_interval
                               ELSE FMin(FMul(config.base_interval, config.backoff_factor),
                                         config.max_interval)

\* a callback after the interval had backed off, then six quiet polls of which
\* only the last returns more than base_interval
C18_Witness ==
    /\ config.reset_on_callback
    /\ \E n \in 2..Len(calls) :
           /\ FLess(config.base_interval, calls[n - 1].returned)
           /\ calls[n].received_callback
           /\ calls[n].returned = config.base_interval
           /\ n + 6 <= Len(calls)
           /\ \A m \in (n + 1)..(n + 6) : ~calls[m].received_callback
           /\ calls[n + 5].returned = config.base_interval
           /\ FLess(config.base_interval, calls[n + 6].returned)

\* C19: with reset_on_callback false, a poll that received a callback is
\* treated like a quiet poll: the quiet-poll counter is incremented at every
\* call, the interval goes on from the previous one instead of being reset,
\* and no returned interval is below base_interval.
C19_CallbackCountsAsQuiet ==
    ~config.reset_on_callback =>
        \A n \in 1..Len(calls) :
            /\ calls[n].quiet_polls = n
            /\ calls[n].returned =
                   IF n <= 5 THEN config.base_interval
                   ELSE FMin(FMul(calls[n - 1].returned, config.backoff_factor),
                             config.max_interval)
            /\ ~FLess(calls[n].returned, config.base_interval)

\* C20: poll_for_callbacks terminates.  Once the monotonic time elapsed since
\* polling started (the strategy's elapsed_seconds) exceeds timeout, the loop
\* test starts no further iteration and the function returns; and every run
\* in which the store query, the user callback and the sleep return (they may
\* also raise, which ends the function at once) comes to its end.
C20_Terminates ==
    /\ [][(poll.pc = "check" /\ elapsed_seconds(strategy, now) > config.timeout) =>
              (poll'.pc # "query" /\ (poll' # poll => poll'.pc = "returned"))]_vars
    /\ <>(poll.pc \in {"returned", "raised"})

\* the function has returned after more than one iteration, on a timeout that
\* is not zero, with all the findings of its batches counted
C20_Witness ==
    /\ poll.pc = "returned"
    /\ poll.iterations >= 2
    /\ config.timeout > 0
    /\ elapsed_seconds(strategy, now) > config.timeout
    /\ poll.total_findings > 0

\* C21: the polling loop run with timeout = 0.1 s (one tick) terminates within
\* 1 s (ten ticks) of being started: it is not still running later than that.
C21_TimeoutWithinOneSecond ==
    (config.timeout = 1 /\ poll.pc \notin {"idle", "returned", "raised"}) => now <= 10

\* C24: an error other than cancellation raised during a polling iteration, by
\* the store query or by the user callback, does not terminate
\* poll_for_callbacks; only KeyboardInterrupt propagates to the caller.
C24_OnlyCancellationPropagates ==
    poll.pc = "raised" => poll.error = "KeyboardInterrupt"

\* C27: a finding's severity is 'high' when its context contains 'ssti' or 'sqli' in
\* any letter case, otherwise 'medium' when it contains 'xss', otherwise 'info' (also
\* when the context is absent); it is always one of info, low, medium, high.
C27_SeverityFromContext ==
    op.name = "severity" =>
       LET Has(word) == /\ op.context # None
                        /\ \E i \in 1..Len(op.context) : MatchAt(op.context, i, word)
       IN  /\ op.ret = (IF Has(<<"s","s","t","i">>) \/ Has(<<"s","q","l","i">>) THEN "high"
                        ELSE IF Has(<<"x","s","s">>) THEN "medium"
                        ELSE "info")
           /\ op.ret \in {"info", "low", "medium", "high"}

\* a context holding both 'xss' and 'Ssti' was rated high
C27_Witness ==
    /\ op.name = "severity"
    /\ op.context = <<"x","s","s","+","S","s","t","i">>
    /\ op.ret = "high"

\* C25: get_findings() with no since and min_severity 'info' returns one Finding per
\* stored callback row, paired with the injection whose id is the callback's
\* correlation_id: an injection with k callbacks yields k findings with its
\* correlation_id and payload, an injection with no callback yields none.
C25_OneFindingPerCallback ==
    (op.name = "get_findings" /\ op.since = NoTime /\ op.min_severity = "info") =>
       /\ Len(op.ret) = Len(callbacks)
       /\ \A k \in 1..Len(callbacks) : \E n \in 1..Len(op.ret) :
             /\ op.ret[n].callback_id = k
             /\ op.ret[n].correlation_id = callbacks[k].correlation_id
             /\ op.ret[n].received_at = callbacks[k].received_at
       /\ \A n \in 1..Len(op.ret) : \E row \in injections :
             /\ row.id = op.ret[n].correlation_id
             /\ row.payload = op.ret[n].payload
       /\ \A row \in injections :
             Cardinality({n \in 1..Len(op.ret) : op.ret[n].correlation_id = row.id})
                = Cardinality({k \in 1..Len(callbacks) : callbacks[k].correlation_id = row.id})

\* ID_A has two callbacks and ID_B none: two findings, both of ID_A
C25_Witness ==
    /\ op.name = "get_findings" /\ op.since = NoTime /\ op.min_severity = "info"
    /\ Ids(injections) = {ID_A, ID_B}
    /\ Len(op.ret) = 2
    /\ \A n \in 1..2 : op.ret[n].correlation_id = ID_A

\* C26: get_findings(since=t) returns exactly the findings whose callback has
\* received_at strictly greater than t (received_at = t is excluded, every committed
\* callback after t is included), ordered by received_at descending.
C26_StrictlyAfterSince ==
    (op.name = "get_findings" /\ op.since # NoTime /\ op.min_severity = "info") =>
       LET after == {k \in 1..Len(callbacks) : callbacks[k].received_at > op.since}
       IN  /\ {op.ret[n].callback_id : n \in 1..Len(op.ret)} = after
           /\ Len(op.ret) = Cardinality(after)
           /\ \A n, m \in 1..Len(op.ret) :
                 n < m => op.ret[n].received_at >= op.ret[m].received_at

\* one callback received at t is left out, a later one is returned
C26_Witness ==
    /\ op.name = "get_findings" /\ op.since # NoTime /\ op.min_severity = "info"
    /\ Len(callbacks) = 2
    /\ callbacks[1].received_at = op.since
    /\ Len(op.ret) = 1
    /\ op.ret[1].callback_id = 2

\* C28: record_injection with an id that is already in the injections table fails
\* with an error and leaves the existing row and the rest of the store as they
\* were; there is never more than one injection row per id.
C28_DuplicateIdRejected ==
    [][ /\ \A r1, r2 \in injections' : r1.id = r2.id => r1 = r2
        /\ (op' # op /\ op'.name = "record_injection" /\ op'.record.id \in Ids(injections))
              => /\ op'.error = "IntegrityError"
                 /\ injections' = injections
                 /\ callbacks' = callbacks ]_vars

\* a record with the id of a stored row but another context was refused
C28_Witness ==
    /\ op.name = "record_injection"
    /\ op.error = "IntegrityError"
    /\ \E row \in injections : row.id = op.record.id /\ row.context # op.record.context

\* C29: get_injection(r.id) called after record_injection(r) succeeded returns a
\* record equal to r in every field; get_injection of an id that was never
\* recorded returns none.
C29_RecordThenGet ==
    [][ op'.name = "get_injection" =>
          /\ (op.name = "record_injection" /\ op.error = "none"
                /\ op'.correlation_id = op.record.id) => op'.ret = {op.record}
          /\ op'.correlation_id \notin Ids(injections') => op'.ret = {}
          /\ op'.ret \subseteq SampleRecords ]_vars

\* the record of ID_A with context 'Xss' was read back
C29_Witness ==
    /\ op.name = "get_injection"
    /\ \E r \in op.ret : r.id = ID_A /\ r.context = <<"X","s","s">> /\ r.timestamp = 1

\* C22: every callback recorded for a known correlation ID while the loop runs is
\* passed to the user callback: a callback that is committed when a query runs is
\* among the findings of that query or was passed on by an earlier iteration.
C22_NoFindingSkipped ==
    [][ (poll.pc = "query" /\ poll'.pc = "stamp") =>
           \A k \in 1..Len(callbacks) :
              k \in poll.delivered \cup {poll'.findings[n] : n \in 1..Len(poll'.findings)} ]_vars

\* C23: with a non-decreasing wall clock no callback id is passed to the user
\* callback in more than one batch of one run, nor twice in one batch.
C23_NoDuplicateAcrossBatches ==
    [][ (poll.pc = "stamp" /\ poll'.pc = "callback") =>
           /\ \A n \in 1..Len(poll.findings) : poll.findings[n] \notin poll.delivered
           /\ \A n, m \in 1..Len(poll.findings) :
                 poll.findings[n] = poll.findings[m] => n = m ]_vars

\* a second batch was passed on after a first one
C23_Witness ==
    /\ poll.pc = "callback"
    /\ Cardinality(poll.delivered) = 2
    /\ Len(poll.findings) = 1

\* C30: after a shutdown signal every handler that was in progress runs to
\* completion, its callback persisted and its response sent, before the server
\* closes: no handler is cut off by the shutdown.
C30_HandlersRunToCompletion ==
    \A t \in Handlers : pc[t] # "killed"

\* C31: a UDP datagram shorter than 12 octets received by the DNS server produces
\* no response and no store write: its handler returns at once, with nothing sent,
\* no correlation ID taken and record_callback not called.
C31_ShortDatagramDropped ==
    \A t \in DnsThreads :
       (pc[t] # "idle" /\ ~req[t].size_ok) =>
          /\ pc[t] = "dropped"
          /\ response[t] = NoResponse
          /\ cid[t] = None
          /\ recorded[t] = "unset"

\* a short datagram was the second request taken and its handler returned
C31_Witness ==
    \E t \in DnsThreads :
       /\ pc[t] = "dropped"
       /\ ~req[t].size_ok
       /\ nReq = 2

\* the pieces that are placeholders, in any of the four forms and any letter case
IsPlaceholder(piece) ==
    Len(piece) >= 10 /\ \E a \in 1..Len(CALLBACK_PATTERN) :
        Len(piece) = Len(CALLBACK_PATTERN[a]) /\ MatchAt(piece, 1, CALLBACK_PATTERN[a])

\* the templates that differ from parts only in the form of their placeholders
RECURSIVE FormVariants(_)
FormVariants(parts) ==
    IF parts = <<>> THEN {<<>>}
    ELSE { <<h>> \o t :
             h \in (IF IsPlaceholder(Head(parts))
                    THEN {CALLBACK_PATTERN[a] : a \in 1..Len(CALLBACK_PATTERN)}
                    ELSE {Head(parts)}),
             t \in FormVariants(Tail(parts)) }

\* the template with every placeholder piece replaced by url
RECURSIVE Replaced(_, _)
Replaced(parts, url) ==
    IF parts = <<>> THEN <<>>
    ELSE (IF IsPlaceholder(Head(parts)) THEN url ELSE Head(parts)) \o Replaced(Tail(parts), url)

\* C32 as stated: every placeholder is replaced by the trimmed callback_base + '/' +
\* correlation_id, and templates that differ only in the placeholder form used give
\* the same output, for every template.
C32_AllFormsAlike ==
    op.name = "substitute_callback" =>
       /\ op.ret = Replaced(op.parts, RStrip(CallbackUrl, "/") \o <<"/">> \o op.correlation_id)
       /\ \A other \in FormVariants(op.parts) :
             substitute_callback(Join(other, <<>>), op.callback_url, op.correlation_id) = op.ret

\* no placeholder stands directly after a '$' or a '{' of the surrounding text
Unambiguous(parts) ==
    \A k \in 2..Len(parts) :
       IsPlaceholder(parts[k]) => parts[k - 1] \notin { <<"$">>, <<"{">> }

\* C32, amended: the same for every template in which no placeholder directly
\* follows a '$' or a '{' of the surrounding text; a template without a placeholder
\* is returned unchanged.
C32_UnambiguousFormsAlike ==
    (op.name = "substitute_callback" /\ Unambiguous(op.parts)) =>
       /\ op.ret = Replaced(op.parts, RStrip(CallbackUrl, "/") \o <<"/">> \o op.correlation_id)
       /\ \A other \in FormVariants(op.parts) :
             substitute_callback(Join(other, <<>>), op.callback_url, op.correlation_id) = op.ret
       /\ (\A k \in 1..Len(op.parts) : ~IsPlaceholder(op.parts[k])) => op.ret = op.payload

\* two placeholders of different forms, a base ending in two slashes
C32_Witness ==
    /\ op.name = "substitute_callback"
    /\ op.callback_url = CallbackUrl \o <<"/">>
    /\ Len(op.parts) = 2
    /\ op.parts[1] = CALLBACK_PATTERN[4]
    /\ op.parts[2] = CALLBACK_PATTERN[2]
    /\ op.ret = RStrip(CallbackUrl, "/") \o <<"/">> \o op.correlation_id
                \o RStrip(CallbackUrl, "/") \o <<"/">> \o op.correlation_id


(***************************************************************************)
(* C33: for each of the five vector locations, injecting a payload yields  *)
(* a request in which the targeted parameter carries the payload and every *)
(* other query key, header, cookie and body field keeps its name, value    *)
(* and order, and the request given to the call is left as it was.  The    *)
(* parameters of a request are read back with extract_vectors.             *)
(***************************************************************************)
C33_OnlyTargetChanges ==
    op.name = "inject_payload" =>
      LET before == extract_vectors(op.request)
          after  == extract_vectors(op.ret)
          targeted(k) == /\ before[k].location = op.vector.location
                         /\ before[k].name = op.vector.name
          rewritten(k) ==
              \/ op.vector.location = "header" /\ op.request.headers[k][1] = op.vector.name
              \/ op.vector.location = "cookie"
                    /\ StrLower(op.request.headers[k][1]) = <<"c","o","o","k","i","e">>
      IN  /\ Len(after) = Len(before)
          /\ \A k \in 1..Len(before) :
                /\ after[k].location = before[k].location
                /\ after[k].name = before[k].name
                /\ after[k].original_value =
                      IF targeted(k) THEN op.payload ELSE before[k].original_value
          /\ Len(op.ret.headers) = Len(op.request.headers)
          /\ \A k \in 1..Len(op.request.headers) :
                /\ op.ret.headers[k][1] = op.request.headers[k][1]
                /\ rewritten(k) \/ op.ret.headers[k][2] = op.request.headers[k][2]
          /\ (op.ret.body = None) = (op.request.body = None)
          /\ op.request_after = op.request


C34_WitnessTwoInBatch ==
    /\ poll.pc = "stamp"
    /\ Len(poll.findings) = 2
    /\ callbacks[poll.findings[1]].received_at > callbacks[poll.findings[2]].received_at


(***************************************************************************)
(* C35: once inserted, an injection row is never modified or deleted:      *)
(* get_injection(c) returns the same field values after every later call   *)
(* on the store, whatever callbacks are recorded for c.                    *)
(***************************************************************************)
C35_InjectionRowsKept ==
    [][\A c \in {ID_A, ID_B} :
          get_injection(injections, c) # {} =>
             get_injection(injections', c) = get_injection(injections, c)]_vars

\* get_injection returns the record of an injection that has a callback, with
\* both ids stored
C35_Witness ==
    /\ op.name = "get_injection"
    /\ op.ret # {}
    /\ \E k \in 1..Len(callbacks) : callbacks[k].correlation_id = op.correlation_id
    /\ Cardinality(injections) = 2


(***************************************************************************)
(* C36: the timeout clock starts at the first get_next_interval call, not  *)
(* at construction.  Before any get_next_interval call is_timed_out() is   *)
(* False at every later clock reading, whatever the timeout, so            *)
(* poll_for_callbacks returns only after at least one store query; the     *)
(* first call stores the clock reading of that call, no later call changes *)
(* it, and from then on the loop test ends the loop exactly when the time  *)
(* elapsed since that reading exceeds timeout.                             *)
(***************************************************************************)
C36_ClockStartsAtFirstInterval ==
    /\ [](calls = <<>> =>
            \A t \in now..(now + config.timeout + 1) : ~is_timed_out(strategy, config, t))
    /\ [](poll.pc = "returned" => poll.iterations >= 1)
    /\ [][(calls = <<>> /\ calls' # <<>>) => strategy'.start_time = now]_vars
    /\ [][(calls # <<>> /\ calls' # <<>>) => strategy'.start_time = strategy.start_time]_vars
    /\ [][(poll.pc = "check" /\ poll' # poll /\ calls # <<>>) =>
             ((poll'.pc = "returned") <=> (now - strategy.start_time > config.timeout))]_vars

\* a run with timeout 0 has made its one query and returned
C36_Witness ==
    /\ poll.pc = "returned"
    /\ config.timeout = 0
    /\ poll.iterations = 1
    /\ Len(calls) = 1


(***************************************************************************)
(* C37: poll_for_callbacks invokes the user callback exactly once for each *)
(* iteration whose query result is non-empty and never with an empty list, *)
(* and returns the sum of the sizes of all batches it passed to the        *)
(* callback: the callback is entered from the step after the query only,   *)
(* exactly when findings is non-empty, and the count that is returned      *)
(* starts at 0 and grows by the size of each batch passed, by nothing else.*)
(***************************************************************************)
C37_CallbackPerNonEmptyBatch ==
    /\ [](poll.pc = "callback" => poll.findings # <<>>)
    /\ [](poll.pc = "check" /\ poll.iterations = 0 => poll.total_findings = 0)
    /\ [][(poll.pc = "stamp" /\ poll' # poll) =>
             ((poll'.pc = "callback") <=> (poll.findings # <<>>))]_vars
    /\ [][(poll'.pc = "callback" /\ poll' # poll) => poll.pc = "stamp"]_vars
    /\ [][poll.pc \notin {"idle", "callback"} =>
             poll'.total_findings = poll.total_findings
                + (IF poll'.pc = "callback" THEN Len(poll.findings) ELSE 0)]_vars
    /\ [][poll.pc = "callback" => poll'.total_findings = poll.total_findings]_vars

\* the function has returned 3 after three iterations, one of which found
\* nothing
C37_Witness ==
    /\ poll.pc = "returned"
    /\ poll.total_findings = 3
    /\ poll.iterations = 3
    /\ \E k \in 1..Len(calls) : ~calls[k].received_callback


(***************************************************************************)
(* C38: probe_all acquires one rate-limiter token before each probe,       *)
(* invokes the optional callback once per result, in input order, and      *)
(* returns exactly one TriggerResult per endpoint in input order; a        *)
(* timeout or connection failure on an endpoint gives an error result with *)
(* status None and the remaining endpoints are probed all the same.        *)
(***************************************************************************)
C38_OneResultPerEndpoint ==
    op.name = "probe_all" =>
      LET per  == IF op.has_callback THEN 3 ELSE 2
          done == Len(op.results)
          Path(e) == IF e = <<>> \/ e[1] # "/" THEN <<"/">> \o e ELSE e
      IN  /\ done <= Len(op.endpoints)
          /\ op.pc = "returned" => done = Len(op.endpoints)
          /\ Len(op.trace) = per * done + (CASE op.pc = "probe" -> 1
                                              [] op.pc = "raised" -> 2
                                              [] OTHER -> 0)
          /\ \A k \in 1..done :
                /\ op.trace[per * (k - 1) + 1] = [event |-> "acquire", n |-> k]
                /\ op.trace[per * (k - 1) + 2] = [event |-> "probe", n |-> k]
                /\ op.has_callback => op.trace[per * k] = [event |-> "callback", n |-> k]
                /\ op.results[k].endpoint = Path(op.endpoints[k])
                /\ op.outcomes[k] \in {"TimeoutError", "ConnectionError"} =>
                      op.results[k].status = {} /\ op.results[k].error # "None"
                /\ op.outcomes[k] = "response" =>
                      op.results[k].status # {} /\ op.results[k].error = "None"
          /\ op.pc = "raised" =>
                op.outcomes[Len(op.outcomes)] \notin {"TimeoutError", "ConnectionError"}

\* probe_all has returned two results, the first one of a failed request
C38_Witness ==
    /\ op.name = "probe_all"
    /\ op.pc = "returned"
    /\ op.has_callback
    /\ Len(op.results) = 2
    /\ op.outcomes[1] \in {"TimeoutError", "ConnectionError"}
    /\ op.outcomes[2] = "response"


(***************************************************************************)
(* C39: under fair scheduling and an advancing monotonic clock every       *)
(* blocking acquire call eventually returns True, also when several        *)
(* threads contend for the same RateLimiter.                               *)
(***************************************************************************)
C39_EveryAcquireReturns ==
    \A t \in Callers :
       (acq[t].pc = "enter") ~> (acq[t].pc = "done" /\ acq[t].ret = "True")


(***************************************************************************)
(* C40: Crawler.crawl fetches each URL at most once, returns at most       *)
(* max_pages results, never processes a page at depth greater than         *)
(* max_depth, never follows links from a page that returned an error,      *)
(* enqueues only links on the seed URL's domain, and acquires a            *)
(* rate-limiter token before every fetch; it returns when the queue is     *)
(* empty or max_pages is reached, and only then.                           *)
(***************************************************************************)
C40_CrawlBounds ==
    op.name = "crawl" =>
      LET n == Len(op.results)
          Domain(u) == IF u.netloc = "T" THEN "t" ELSE u.netloc
      IN  /\ \A j, k \in 1..n : op.results[j].url = op.results[k].url => j = k
          /\ n <= op.max_pages
          /\ \A k \in 1..n : op.results[k].depth <= op.max_depth
          /\ \A p \in op.parent :
                /\ op.results[p[2]].error = "None"
                /\ op.results[p[2]].depth < op.max_depth
          /\ \A u \in op.visited :
                /\ Domain(u) = Domain(op.seed_url)
                /\ u = op.seed_url \/ \E p \in op.parent : p[1] = u
          /\ \A k \in 1..Len(op.queue) : op.queue[k].url \in op.visited
          /\ Len(op.trace) = 2 * n + (IF op.pc = "fetch" THEN 1 ELSE 0)
          /\ \A k \in 1..n :
                /\ op.trace[2 * k - 1] = [event |-> "acquire"]
                /\ op.trace[2 * k] = [event |-> "fetch", url |-> op.results[k].url]
          /\ op.pc = "fetch" => op.trace[Len(op.trace)] = [event |-> "acquire"]
          /\ op.pc = "returned" => (op.queue = <<>> \/ n = op.max_pages)

\* a crawl has returned at max_pages with a page of depth 1 fetched and a URL
\* left in the queue
C40_Witness ==
    /\ op.name = "crawl"
    /\ op.pc = "returned"
    /\ Len(op.results) = 2
    /\ op.results[2].depth = 1
    /\ op.queue # <<>>
    /\ Cardinality(op.visited) >= 3

====
